---- MODULE Spec2Model ----
(***************************************************************************)
(* Geohash codec of src/lib/index.mjs: the interval-bisection encoders and *)
(* decoders in their three representations (base-32 string, integer, wide  *)
(* integer), the neighbour computation, the query-range derivation and the *)
(* bounding-box enumeration, eager and lazy.                               *)
(*                                                                         *)
(* Numbers.  A coordinate is an IEEE-754 double.  The model writes a       *)
(* double as <<neg, h, m, l>>: the sign and three limbs of 24 bits of its  *)
(* magnitude, counted in units of 2^-62 degree,                            *)
(*     |v| = (h * 2^48 + m * 2^24 + l) * 2^-62,                            *)
(* and rounds every sum to 53 significant bits, to nearest, ties to even,  *)
(* as the program's arithmetic does.  Every double the program computes on *)
(* the inputs of the model is below 1024 and a multiple of 2^-62.  An      *)
(* integer code is five limbs of 24 bits, most significant first.  A       *)
(* geohash string is a sequence of one-character strings.                  *)
(***************************************************************************)
EXTENDS Integers, Sequences, FiniteSets, TLC

VARIABLES
    pc,      \* the operation that acted last
    input,   \* the arguments of the session: a record
    enc,     \* the locals of the running encoder loop
    out,     \* what the last completed call returned or threw
    gen,     \* the frame of the lazy bounding-box sequence
    pulled   \* the cells the lazy sequence has yielded so far

vars == <<pc, input, enc, out, gen, pulled>>

(***************************************************************************)
(* Bounds of the model                                                     *)
(***************************************************************************)
\* sampled coordinates lie up to Spread steps of 2^-45 degree inside their anchor
Spread == 1
\* the whole degrees, on either side of zero, the wrap functions are tried on
MaxWrap == 1000
\* deepest code (in bits) the bounding-box enumerations of the model are asked for
MaxBoxBits == 10
MaxCircleBits == 6

(***************************************************************************)
(* Double arithmetic                                                       *)
(***************************************************************************)
Limb == 2 ^ 24

\* limbs brought back into 0 .. Limb - 1, the carries (or borrows) moved upward
Carry(h, m, l) ==
    LET m1 == m + (l \div Limb)
    IN  << h + (m1 \div Limb), m1 % Limb, l % Limb >>

MagLess(a, b) ==
    \/ a[1] < b[1]
    \/ a[1] = b[1] /\ a[2] < b[2]
    \/ a[1] = b[1] /\ a[2] = b[2] /\ a[3] < b[3]

\* number of bits a magnitude has beyond the 53 of a double's significand
Excess(a) ==
    LET h == a[1]
    IN  IF h < 2 ^ 15
        THEN IF h < 2 ^ 10
             THEN IF h < 2 ^ 7
                  THEN IF h < 2 ^ 5 THEN 0 ELSE IF h < 2 ^ 6 THEN 1 ELSE 2
                  ELSE IF h < 2 ^ 8 THEN 3 ELSE IF h < 2 ^ 9 THEN 4 ELSE 5
             ELSE IF h < 2 ^ 12 THEN (IF h < 2 ^ 11 THEN 6 ELSE 7)
                  ELSE IF h < 2 ^ 13 THEN 8 ELSE IF h < 2 ^ 14 THEN 9 ELSE 10
        ELSE IF h < 2 ^ 20
             THEN IF h < 2 ^ 17 THEN (IF h < 2 ^ 16 THEN 11 ELSE 12)
                  ELSE IF h < 2 ^ 18 THEN 13 ELSE IF h < 2 ^ 19 THEN 14 ELSE 15
             ELSE IF h < 2 ^ 22 THEN (IF h < 2 ^ 21 THEN 16 ELSE 17)
                  ELSE IF h < 2 ^ 23 THEN 18 ELSE IF h < 2 ^ 24 THEN 19 ELSE 20

\* a magnitude rounded to a multiple of unit, low being what it has below unit: to
\* nearest, ties to even
RoundOff(a, unit, low) ==
    IF low = 0 THEN a
    ELSE IF 2 * low > unit \/ (2 * low = unit /\ (a[3] \div unit) % 2 = 1)
    THEN Carry(a[1], a[2], a[3] - low + unit)
    ELSE << a[1], a[2], a[3] - low >>

RoundTo(a, unit) == RoundOff(a, unit, a[3] % unit)

\* a magnitude rounded to 53 significant bits
Round53(a) == RoundTo(a, 2 ^ Excess(a))

Num(neg, a) == IF a = << 0, 0, 0 >> THEN << FALSE, 0, 0, 0 >> ELSE << neg, a[1], a[2], a[3] >>

MagOf(v) == << v[2], v[3], v[4] >>

Neg(v) == Num(~v[1], MagOf(v))

\* the number of sign neg and magnitude a + k * b, rounded (k is 1 or -1)
Combine(neg, a, b, k) ==
    Num(neg, Round53(Carry(a[1] + k * b[1], a[2] + k * b[2], a[3] + k * b[3])))

\* v + w where w is not the larger in magnitude of two numbers of opposite signs
Sum(v, w) == Combine(v[1], MagOf(v), MagOf(w), IF v[1] = w[1] THEN 1 ELSE -1)

Outweighed(v, w) == v[1] # w[1] /\ MagLess(MagOf(v), MagOf(w))

\* v + w
Add(v, w) ==
    Sum(IF Outweighed(v, w) THEN w ELSE v, IF Outweighed(v, w) THEN v ELSE w)

\* v - w
Sub(v, w) == Add(v, Neg(w))

\* v < w, v <= w
Less(v, w) ==
    IF v[1] # w[1] THEN v[1]
    ELSE IF v[1] THEN MagLess(MagOf(w), MagOf(v))
    ELSE MagLess(MagOf(v), MagOf(w))

Leq(v, w) == ~Less(w, v)

\* v / 2 and v * 2: a change of exponent
Half(v) ==
    Num(v[1], << v[2] \div 2, (v[3] + (v[2] % 2) * Limb) \div 2,
                 (v[4] + (v[3] % 2) * Limb) \div 2 >>)

Twice(v) == Num(v[1], Carry(2 * v[2], 2 * v[3], 2 * v[4]))

\* n * v for an integer n
Times(n, v) ==
    LET k == IF n < 0 THEN -n ELSE n
    IN  Num(IF n < 0 THEN ~v[1] ELSE v[1], Round53(Carry(k * v[2], k * v[3], k * v[4])))

\* Math.abs
MathAbs(v) == Num(FALSE, MagOf(v))

\* the double of a whole number of degrees
Deg(n) == Num(n < 0, << (IF n < 0 THEN -n ELSE n) * 2 ^ 14, 0, 0 >>)

\* the magnitude a % d for magnitudes a and d > 0: exact, as the % of doubles is
RECURSIVE RemMag(_, _)
RemMag(a, d) ==
    IF MagLess(a, d) THEN a
    ELSE RemMag(Carry(a[1] - d[1], a[2] - d[2], a[3] - d[3]), d)

\* v % w of JavaScript: the sign of v
Rem(v, w) == Num(v[1], RemMag(MagOf(v), MagOf(w)))

\* v % 360
Rem360(v) == Rem(v, Deg(360))

\* Math.floor(|n| / |d|) for magnitudes n and d > 0
RECURSIVE Fits(_, _)
Fits(n, d) ==
    IF MagLess(n, d) THEN 0
    ELSE 1 + Fits(Carry(n[1] - d[1], n[2] - d[2], n[3] - d[3]), d)

\* Math.round(v / w): the quotient to the nearest integer, a half going upward; a
\* quotient by zero is NaN or infinite, and not finite
MathRoundQuotient(v, w) ==
    IF MagOf(w) = << 0, 0, 0 >> THEN [finite |-> FALSE]
    ELSE LET d == MagOf(Twice(w))
             a == MagOf(Twice(v))
             b == MagOf(w)
         IN  [finite |-> TRUE,
              value |->
                  IF v[1] = w[1] THEN Fits(Carry(a[1] + b[1], a[2] + b[2], a[3] + b[3]), d)
                  ELSE IF ~MagLess(b, a) THEN 0
                  ELSE -Fits(Carry(a[1] - b[1] + d[1], a[2] - b[2] + d[2],
                                   a[3] - b[3] + d[3] - 1), d)]

NumberIsFinite(n) == n.finite

(***************************************************************************)
(* Integer codes                                                           *)
(***************************************************************************)
Zero == << 0, 0, 0, 0, 0 >>

\* number * 2 + bit
Shift(number, bit) ==
    LET e == 2 * number[5] + bit
        d == 2 * number[4] + (e \div Limb)
        c == 2 * number[3] + (d \div Limb)
        b == 2 * number[2] + (c \div Limb)
        a == 2 * number[1] + (b \div Limb)
    IN  << a, b % Limb, c % Limb, d % Limb, e % Limb >>

\* 2 ** k
Pow2(k) == [i \in 1 .. 5 |-> IF i = 5 - (k \div 24) THEN 2 ^ (k % 24) ELSE 0]

RECURSIVE IntLessFrom(_, _, _)
IntLessFrom(a, b, i) ==
    IF i > 5 THEN FALSE
    ELSE IF a[i] # b[i] THEN a[i] < b[i]
    ELSE IntLessFrom(a, b, i + 1)

IntLess(a, b) == IntLessFrom(a, b, 1)

(***************************************************************************)
(* Program constants                                                       *)
(***************************************************************************)
BASE == 32
ALPHABET ==
    << "0", "1", "2", "3", "4", "5", "6", "7", "8", "9", "b", "c", "d", "e", "f", "g",
       "h", "j", "k", "m", "n", "p", "q", "r", "s", "t", "u", "v", "w", "x", "y", "z" >>
BITS_PER_CHAR == 5
\* mutant of LIMITER_CHAR: a character whose code unit is below the alphabet's
LimiterBelowAlphabet == "-"
LIMITER_CHAR == "~"
MAX_GEOHASH_PRECISION == 22
MAX_GEOHASH_PRECISION_BITS == MAX_GEOHASH_PRECISION * BITS_PER_CHAR
MAX_GEOINT_BITS == 52
MAX_GEOBIGINT_BITS == MAX_GEOHASH_PRECISION_BITS
MAX_GEOINT == Pow2(MAX_GEOINT_BITS)
MAX_GEOBIGINT == Pow2(MAX_GEOBIGINT_BITS)
GEOHASH_PRECISION == 10
GEOINT_BITS == 52
GEOBIGINT_BITS == 64

\* let index = 100 of getVincentyDistance
VINCENTY_ITERATIONS == 100

MAX_LATITUDE == Deg(90)
MIN_LATITUDE == Neg(MAX_LATITUDE)
MAX_LONGITUDE == Deg(180)
MIN_LONGITUDE == Neg(MAX_LONGITUDE)

directions ==
    << "north", "northeast", "east", "southeast", "south", "southwest", "west", "northwest" >>

\* mutant of directionLookup: the offsets of east and west exchanged
directionLookupMirrored ==
    [north |-> << 1, 0 >>, northeast |-> << 1, -1 >>, east |-> << 0, -1 >>,
     southeast |-> << -1, -1 >>, south |-> << -1, 0 >>, southwest |-> << -1, 1 >>,
     west |-> << 0, 1 >>, northwest |-> << 1, 1 >>]

directionLookup ==
    [north |-> << 1, 0 >>, northeast |-> << 1, 1 >>, east |-> << 0, 1 >>,
     southeast |-> << -1, 1 >>, south |-> << -1, 0 >>, southwest |-> << -1, -1 >>,
     west |-> << 0, -1 >>, northwest |-> << 1, -1 >>]

\* getDirections() allocates a new array on every call.  The arrays are kept in a
\* heap, a sequence indexed by their references; the module's own  directions  is
\* the first, allocated when the module is loaded.  The mutant hands out the
\* module's array itself.
getDirectionsAliased(heap) ==
    IF heap = << >> THEN [array |-> 1, heap |-> << directions >>]
    ELSE [array |-> 1, heap |-> heap]

getDirections(heap) == [array |-> Len(heap) + 1, heap |-> Append(heap, directions)]

\* mutant of getBit: the quotient is compared with 1 without the mask, so that a
\* bit under a higher bit that is set reads as 0
getBitUnmasked(number, position) ==
    IF IntLess(number, Pow2(position + 1))
    THEN (number[5 - (position \div 24)] \div (2 ^ (position % 24))) % 2
    ELSE 0

\* number / (2 ** position) & 1
getBit(number, position) ==
    (number[5 - (position \div 24)] \div (2 ^ (position % 24))) % 2

\* bigInt / (2n ** BigInt(position)) & 1n
getBigIntBit(bigInt, position) ==
    (bigInt[5 - (position \div 24)] \div (2 ^ (position % 24))) % 2

\* ALPHABET[i] of JavaScript: undefined outside 0..31, printed when appended
AlphabetAt(i) ==
    IF i \in 0 .. (BASE - 1) THEN << ALPHABET[i + 1] >>
    ELSE << "u", "n", "d", "e", "f", "i", "n", "e", "d" >>

\* alphabetLookup: the index of an alphabet character, -1 standing for undefined
alphabetLookup(char) ==
    IF \E i \in 1 .. BASE : ALPHABET[i] = char
    THEN (CHOOSE i \in 1 .. BASE : ALPHABET[i] = char) - 1
    ELSE -1

\* createAlphabetLookup(alphabet): the table from a character to its index
createAlphabetLookup(alphabet) ==
    [char \in {alphabet[i] : i \in 1 .. BASE} |->
        (CHOOSE i \in 1 .. BASE : alphabet[i] = char) - 1]

\* results of calls: a value, or the error thrown
Ok(v) == [type |-> "ok", value |-> v]
Throw(e) == [type |-> e]
SyntaxError(char, index) == [type |-> "SyntaxError", char |-> char, index |-> index]
None == [type |-> "none"]

(***************************************************************************)
(* Validation                                                              *)
(***************************************************************************)
validateDirection(value) ==
    IF value \notin DOMAIN directionLookup THEN Throw("TypeError") ELSE Ok(value)

\* a value of JavaScript: a primitive string with its code units, or a value of
\* another type
StringValue(units) == [kind |-> "string", units |-> units]
OtherValue(kind) == [kind |-> kind]

\* PrimitivesIsString(value) of @darkwolf/primordials: the value is a primitive string
PrimitivesIsString(value) == value.kind = "string"

\* code units standing for the two halves of a surrogate pair
HighSurrogate == "\\uD83C"
LowSurrogate == "\\uDF0D"

\* StringPrototypeSafeSymbolIterator(value): the string by code points, a high
\* surrogate followed by a low one being one element of two code units
RECURSIVE StringPrototypeSafeSymbolIterator(_)
StringPrototypeSafeSymbolIterator(units) ==
    IF units = << >> THEN << >>
    ELSE IF Len(units) >= 2 /\ units[1] = HighSurrogate /\ units[2] = LowSurrogate
    THEN << SubSeq(units, 1, 2) >> \o StringPrototypeSafeSymbolIterator(SubSeq(units, 3, Len(units)))
    ELSE << SubSeq(units, 1, 1) >> \o StringPrototypeSafeSymbolIterator(Tail(units))

\* alphabetLookup[char] === undefined for an element of the iterator: the table has
\* keys of one code unit only
LookupUndefined(char) == Len(char) # 1 \/ alphabetLookup(char[1]) = -1

\* mutant of isGeohash: the length 22 is refused
isGeohashBelowLargest(value) ==
    IF ~PrimitivesIsString(value) THEN FALSE
    ELSE IF Len(value.units) = 0 \/ Len(value.units) >= MAX_GEOHASH_PRECISION THEN FALSE
    ELSE LET chars == StringPrototypeSafeSymbolIterator(value.units)
         IN  \A i \in 1 .. Len(chars) : ~LookupUndefined(chars[i])

isGeohash(value) ==
    IF ~PrimitivesIsString(value) THEN FALSE
    ELSE IF Len(value.units) = 0 \/ Len(value.units) > MAX_GEOHASH_PRECISION THEN FALSE
    ELSE LET chars == StringPrototypeSafeSymbolIterator(value.units)
         IN  \A i \in 1 .. Len(chars) : ~LookupUndefined(chars[i])

validateGeohash(value) ==
    IF Len(value) = 0 \/ Len(value) > MAX_GEOHASH_PRECISION THEN Throw("RangeError")
    ELSE IF \E i \in 1 .. Len(value) : alphabetLookup(value[i]) = -1
    THEN LET i == CHOOSE i \in 1 .. Len(value) :
                      /\ alphabetLookup(value[i]) = -1
                      /\ \A j \in 1 .. (i - 1) : alphabetLookup(value[j]) # -1
         IN  SyntaxError(value[i], i - 1)
    ELSE Ok(value)

toLatitude(value) ==
    IF Less(value, MIN_LATITUDE) \/ Less(MAX_LATITUDE, value) THEN Throw("RangeError")
    ELSE Ok(value)

toLongitude(value) ==
    IF Less(value, MIN_LONGITUDE) \/ Less(MAX_LONGITUDE, value) THEN Throw("RangeError")
    ELSE Ok(value)

toGeohashPrecision(value) ==
    IF value <= 0 \/ value > MAX_GEOHASH_PRECISION THEN Throw("RangeError") ELSE Ok(value)

toGeohashPrecisionBits(value) ==
    IF value <= 0 \/ value > MAX_GEOHASH_PRECISION_BITS THEN Throw("RangeError") ELSE Ok(value)

toGeointBits(value) ==
    IF value <= 0 \/ value > MAX_GEOINT_BITS THEN Throw("RangeError") ELSE Ok(value)

toGeobigintBits(value) ==
    IF value <= 0 \/ value > MAX_GEOBIGINT_BITS THEN Throw("RangeError") ELSE Ok(value)

toGeoint(value) ==
    IF value = Zero \/ IntLess(MAX_GEOINT, value) THEN Throw("RangeError") ELSE Ok(value)

toGeobigint(value) ==
    IF value = Zero \/ IntLess(MAX_GEOBIGINT, value) THEN Throw("RangeError") ELSE Ok(value)

_wrapLatitude(latitude) ==
    IF Leq(MIN_LATITUDE, latitude) /\ Leq(latitude, MAX_LATITUDE) THEN latitude
    ELSE Sub(MathAbs(Sub(Rem360(Add(Rem360(latitude), Deg(270))), Deg(180))), MAX_LATITUDE)

_wrapLongitude(longitude) ==
    IF Leq(MIN_LONGITUDE, longitude) /\ Leq(longitude, MAX_LONGITUDE) THEN longitude
    ELSE Sub(Rem360(Add(longitude, Deg(540))), MAX_LONGITUDE)

\* the exported functions: TypesToNumber leaves a number as it is
wrapLatitude(latitude) == _wrapLatitude(latitude)

wrapLongitude(longitude) == _wrapLongitude(longitude)

(***************************************************************************)
(* Encoders: the loop locals, one iteration, and the loop run to its end   *)
(***************************************************************************)
EncodeLocals ==
    [minLat |-> MIN_LATITUDE, maxLat |-> MAX_LATITUDE,
     minLon |-> MIN_LONGITUDE, maxLon |-> MAX_LONGITUDE,
     isEven |-> TRUE, bitCount |-> 0, carry |-> 0, result |-> << >>]

EncodeIntLocals ==
    [minLat |-> MIN_LATITUDE, maxLat |-> MAX_LATITUDE,
     minLon |-> MIN_LONGITUDE, maxLon |-> MAX_LONGITUDE,
     isEven |-> TRUE, bitCount |-> 0, result |-> Zero]

\* const delta = (minLon + maxLon) / 2, or (minLat + maxLat) / 2
Delta(s) ==
    Half(Add(IF s.isEven THEN s.minLon ELSE s.minLat, IF s.isEven THEN s.maxLon ELSE s.maxLat))

\* the if / else on the active axis, without the bit: upper is the branch taken
Narrow(s, delta, upper) ==
    IF s.isEven
    THEN IF upper THEN [s EXCEPT !.minLon = delta] ELSE [s EXCEPT !.maxLon = delta]
    ELSE IF upper THEN [s EXCEPT !.minLat = delta] ELSE [s EXCEPT !.maxLat = delta]

\* the coordinate of the active axis
Active(s, latitude, longitude) == IF s.isEven THEN longitude ELSE latitude

\* mutant of EncodeBranch: the accumulator is not cleared after a character is emitted
EncodeBranchNoReset(s, delta, upper) ==
    LET carry == IF upper THEN s.carry * 2 + 1 ELSE s.carry * 2
    IN  IF s.bitCount < 4
        THEN [Narrow(s, delta, upper) EXCEPT !.isEven = ~s.isEven, !.carry = carry,
                                             !.bitCount = s.bitCount + 1]
        ELSE [Narrow(s, delta, upper) EXCEPT !.isEven = ~s.isEven, !.carry = carry,
                                             !.result = s.result \o AlphabetAt(carry),
                                             !.bitCount = 0]

\* an iteration of _encode's while loop after delta and the comparison with it
EncodeBranch(s, delta, upper) ==
    LET carry == IF upper THEN s.carry * 2 + 1 ELSE s.carry * 2
    IN  IF s.bitCount < 4
        THEN [Narrow(s, delta, upper) EXCEPT !.isEven = ~s.isEven, !.carry = carry,
                                             !.bitCount = s.bitCount + 1]
        ELSE [Narrow(s, delta, upper) EXCEPT !.isEven = ~s.isEven,
                                             !.result = s.result \o AlphabetAt(carry),
                                             !.bitCount = 0, !.carry = 0]

EncodeCompare(s, delta, coordinate) == EncodeBranch(s, delta, Less(delta, coordinate))

\* one iteration of _encode's while loop
EncodeBody(s, latitude, longitude) ==
    EncodeCompare(s, Delta(s), Active(s, latitude, longitude))

\* _encode's while loop; the iterations are those of the loop to half the remaining
\* characters followed by those of the loop from there on, and are evaluated so
RECURSIVE EncodeLoop(_, _, _, _)
EncodeLoop(s, latitude, longitude, precision) ==
    IF Len(s.result) >= precision THEN s
    ELSE IF precision - Len(s.result) = 1
    THEN EncodeLoop(EncodeBody(s, latitude, longitude), latitude, longitude, precision)
    ELSE EncodeLoop(EncodeLoop(s, latitude, longitude, (Len(s.result) + precision) \div 2),
                    latitude, longitude, precision)

\* _encode(latitude, longitude, precision); the arguments of a call are values
\* before its body runs
_encode(latitude, longitude, precision) ==
    CHOOSE result \in {EncodeLoop(EncodeLocals, at[1], at[2], precision).result :
                          at \in {<< latitude, longitude >>}} : TRUE

\* an iteration of _encodeInt's while loop after delta and the comparison with it
EncodeIntBranch(s, delta, upper) ==
    [Narrow(s, delta, upper) EXCEPT !.result = Shift(s.result, IF upper THEN 1 ELSE 0),
                                    !.isEven = ~s.isEven, !.bitCount = s.bitCount + 1]

\* mutant of EncodeIntCompare: a coordinate on the midpoint goes to the upper half
EncodeIntCompareUpperOnTie(s, delta, coordinate) ==
    EncodeIntBranch(s, delta, Leq(delta, coordinate))

EncodeIntCompare(s, delta, coordinate) == EncodeIntBranch(s, delta, Less(delta, coordinate))

\* one iteration of _encodeInt's while loop
EncodeIntBody(s, latitude, longitude) ==
    EncodeIntCompare(s, Delta(s), Active(s, latitude, longitude))

\* _encodeInt's while loop; the iterations are those of the loop to half the remaining
\* bits followed by those of the loop from there on, and are evaluated so
RECURSIVE EncodeIntLoop(_, _, _, _)
EncodeIntLoop(s, latitude, longitude, bits) ==
    IF s.bitCount >= bits THEN s
    ELSE IF bits - s.bitCount = 1 THEN EncodeIntBody(s, latitude, longitude)
    ELSE EncodeIntLoop(EncodeIntLoop(s, latitude, longitude, (s.bitCount + bits) \div 2),
                       latitude, longitude, bits)

_encodeInt(latitude, longitude, bits) ==
    CHOOSE result \in {EncodeIntLoop(EncodeIntLocals, at[1], at[2], bits).result :
                          at \in {<< latitude, longitude >>}} : TRUE

\* mutant of EncodeBigIntBody: a coordinate on the midpoint goes to the upper half
EncodeBigIntBodyUpperOnTie(s, latitude, longitude) ==
    EncodeIntCompareUpperOnTie(s, Delta(s), Active(s, latitude, longitude))

\* one iteration of _encodeBigInt's while loop
EncodeBigIntBody(s, latitude, longitude) ==
    EncodeIntCompare(s, Delta(s), Active(s, latitude, longitude))

\* _encodeBigInt's while loop; the iterations are those of the loop to half the remaining
\* bits followed by those of the loop from there on, and are evaluated so
RECURSIVE EncodeBigIntLoop(_, _, _, _)
EncodeBigIntLoop(s, latitude, longitude, bits) ==
    IF s.bitCount >= bits THEN s
    ELSE IF bits - s.bitCount = 1 THEN EncodeBigIntBody(s, latitude, longitude)
    ELSE EncodeBigIntLoop(EncodeBigIntLoop(s, latitude, longitude,
                                           (s.bitCount + bits) \div 2),
                          latitude, longitude, bits)

_encodeBigInt(latitude, longitude, bits) ==
    CHOOSE result \in {EncodeBigIntLoop(EncodeIntLocals, at[1], at[2], bits).result :
                          at \in {<< latitude, longitude >>}} : TRUE

\* the exported encoders: validation, then the loop
encode(latitude, longitude, precision) ==
    IF toGeohashPrecision(precision).type # "ok" THEN toGeohashPrecision(precision)
    ELSE IF toLatitude(latitude).type # "ok" THEN toLatitude(latitude)
    ELSE IF toLongitude(longitude).type # "ok" THEN toLongitude(longitude)
    ELSE Ok(_encode(latitude, longitude, precision))

encodeInt(latitude, longitude, bits) ==
    IF toGeointBits(bits).type # "ok" THEN toGeointBits(bits)
    ELSE IF toLatitude(latitude).type # "ok" THEN toLatitude(latitude)
    ELSE IF toLongitude(longitude).type # "ok" THEN toLongitude(longitude)
    ELSE Ok(_encodeInt(latitude, longitude, bits))

encodeBigInt(latitude, longitude, bits) ==
    IF toGeobigintBits(bits).type # "ok" THEN toGeobigintBits(bits)
    ELSE IF toLatitude(latitude).type # "ok" THEN toLatitude(latitude)
    ELSE IF toLongitude(longitude).type # "ok" THEN toLongitude(longitude)
    ELSE Ok(_encodeBigInt(latitude, longitude, bits))

(***************************************************************************)
(* Decoders                                                                *)
(***************************************************************************)
\* the locals of a decoder, the index i of its for loop among them
DecodeLocals ==
    [minLat |-> MIN_LATITUDE, maxLat |-> MAX_LATITUDE,
     minLon |-> MIN_LONGITUDE, maxLon |-> MAX_LONGITUDE, isEven |-> TRUE, i |-> 0]

\* the body of the bit walk of the three decoders
DecodeBit(s, bit) == [Narrow(s, Delta(s), bit = 1) EXCEPT !.isEven = ~s.isEven]

BoxOf(s) == << s.minLat, s.minLon, s.maxLat, s.maxLon >>

\* the inner loop of _decodeBoundingBox: bitCount from 4 down to 0
RECURSIVE DecodeChar(_, _, _)
DecodeChar(s, index, bitCount) ==
    IF bitCount < 0 THEN s
    ELSE DecodeChar(DecodeBit(s, (index \div (2 ^ bitCount)) % 2), index, bitCount - 1)

\* mutant of DecodeChars: the index in the error is counted from one
RECURSIVE DecodeCharsFromOne(_, _)
DecodeCharsFromOne(s, geohash) ==
    IF s.i >= Len(geohash) THEN Ok(BoxOf(s))
    ELSE LET char == geohash[s.i + 1]
             index == alphabetLookup(char)
         IN  IF index = -1 THEN SyntaxError(char, s.i + 1)
             ELSE DecodeCharsFromOne([DecodeChar(s, index, 4) EXCEPT !.i = s.i + 1], geohash)

\* the outer loop of _decodeBoundingBox
RECURSIVE DecodeChars(_, _)
DecodeChars(s, geohash) ==
    IF s.i >= Len(geohash) THEN Ok(BoxOf(s))
    ELSE LET char == geohash[s.i + 1]
             index == alphabetLookup(char)
         IN  IF index = -1 THEN SyntaxError(char, s.i)
             ELSE DecodeChars([DecodeChar(s, index, 4) EXCEPT !.i = s.i + 1], geohash)

\* _decodeBoundingBox(geohash); the argument of a call is a value before its body runs
_decodeBoundingBox(geohash) ==
    CHOOSE box \in {DecodeChars(DecodeLocals, code) : code \in {geohash}} : TRUE

decodeBoundingBox(geohash) ==
    IF Len(geohash) = 0 \/ Len(geohash) > MAX_GEOHASH_PRECISION THEN Throw("RangeError")
    ELSE _decodeBoundingBox(geohash)

\* decodeBoundingBox(geohash) of a value of any type
decodeBoundingBoxOfValue(geohash) ==
    IF ~PrimitivesIsString(geohash) THEN Throw("TypeError")
    ELSE decodeBoundingBox(geohash.units)

\* the for loop of _decodeBoundingBoxInt while i < until; the iterations are those of
\* the loop to half the remaining bits followed by those of the loop from there on,
\* and are evaluated so
RECURSIVE DecodeIntBits(_, _, _, _)
DecodeIntBits(s, geoint, bits, until) ==
    IF s.i >= until THEN s
    ELSE IF until - s.i = 1
    THEN [DecodeBit(s, getBit(geoint, (bits - 1) - s.i)) EXCEPT !.i = s.i + 1]
    ELSE DecodeIntBits(DecodeIntBits(s, geoint, bits, (s.i + until) \div 2),
                       geoint, bits, until)

_decodeBoundingBoxInt(geoint, bits) ==
    CHOOSE box \in {BoxOf(DecodeIntBits(DecodeLocals, code, bits, bits)) :
                       code \in {geoint}} : TRUE

decodeBoundingBoxInt(geoint, bits) ==
    IF toGeointBits(bits).type # "ok" THEN toGeointBits(bits)
    ELSE IF toGeoint(geoint).type # "ok" THEN toGeoint(geoint)
    ELSE Ok(_decodeBoundingBoxInt(geoint, bits))

\* the for loop of _decodeBoundingBoxBigInt while i < until, evaluated by halves as
\* that of _decodeBoundingBoxInt
RECURSIVE DecodeBigIntBits(_, _, _, _)
DecodeBigIntBits(s, geobigint, bits, until) ==
    IF s.i >= until THEN s
    ELSE IF until - s.i = 1
    THEN [DecodeBit(s, getBigIntBit(geobigint, (bits - 1) - s.i)) EXCEPT !.i = s.i + 1]
    ELSE DecodeBigIntBits(DecodeBigIntBits(s, geobigint, bits, (s.i + until) \div 2),
                          geobigint, bits, until)

_decodeBoundingBoxBigInt(geobigint, bits) ==
    CHOOSE box \in {BoxOf(DecodeBigIntBits(DecodeLocals, code, bits, bits)) :
                       code \in {geobigint}} : TRUE

decodeBoundingBoxBigInt(geobigint, bits) ==
    IF toGeobigintBits(bits).type # "ok" THEN toGeobigintBits(bits)
    ELSE IF toGeobigint(geobigint).type # "ok" THEN toGeobigint(geobigint)
    ELSE Ok(_decodeBoundingBoxBigInt(geobigint, bits))

\* boundingBoxToLocation(boundingBox, true)
boundingBoxToLocation(boundingBox) ==
    LET latitude == Half(Add(boundingBox[1], boundingBox[3]))
        longitude == Half(Add(boundingBox[2], boundingBox[4]))
    IN  [latitude |-> latitude, longitude |-> longitude,
         error |-> [latitude |-> Sub(boundingBox[3], latitude),
                    longitude |-> Sub(boundingBox[4], longitude)]]

\* a decode wrapper applied to the result of its decodeBoundingBox
LocationOf(box) == IF box.type = "ok" THEN Ok(boundingBoxToLocation(box.value)) ELSE box

decode(geohash) == LocationOf(decodeBoundingBox(geohash))

decodeInt(geoint, bits) == LocationOf(decodeBoundingBoxInt(geoint, bits))

decodeBigInt(geobigint, bits) == LocationOf(decodeBoundingBoxBigInt(geobigint, bits))

(***************************************************************************)
(* Neighbours                                                              *)
(***************************************************************************)
\* latitude + latDir * perLat with perLat = (maxLat - latitude) * 2, and the same
\* of the longitude
DisplaceFrom(centre, max, dir) == Add(centre, Times(dir, Twice(Sub(max, centre))))

\* the centre (min + max) / 2 of an axis of the box, displaced by dir cells
Displace(min, max, dir) == DisplaceFrom(Half(Add(min, max)), max, dir)

NeighborLat(box, direction) ==
    _wrapLatitude(Displace(box[1], box[3], directionLookup[direction][1]))

NeighborLon(box, direction) ==
    _wrapLongitude(Displace(box[2], box[4], directionLookup[direction][2]))

\* getNeighbor after the validation of the direction: box is what decodeBoundingBox
\* returned or threw
NeighborOfBox(box, direction, length) ==
    IF box.type # "ok" THEN box
    ELSE Ok(_encode(NeighborLat(box.value, direction), NeighborLon(box.value, direction),
                    length))

getNeighbor(geohash, direction) ==
    IF validateDirection(direction).type # "ok" THEN validateDirection(direction)
    ELSE NeighborOfBox(decodeBoundingBox(geohash), direction, Len(geohash))

NeighborOfBoxInt(box, direction, bits) ==
    Ok(_encodeInt(NeighborLat(box, direction), NeighborLon(box, direction), bits))

getNeighborInt(geoint, direction, bits) ==
    IF toGeointBits(bits).type # "ok" THEN toGeointBits(bits)
    ELSE IF validateDirection(direction).type # "ok" THEN validateDirection(direction)
    ELSE IF toGeoint(geoint).type # "ok" THEN toGeoint(geoint)
    ELSE NeighborOfBoxInt(_decodeBoundingBoxInt(geoint, bits), direction, bits)

NeighborOfBoxBigInt(box, direction, bits) ==
    Ok(_encodeBigInt(NeighborLat(box, direction), NeighborLon(box, direction), bits))

getNeighborBigInt(geobigint, direction, bits) ==
    IF toGeobigintBits(bits).type # "ok" THEN toGeobigintBits(bits)
    ELSE IF validateDirection(direction).type # "ok" THEN validateDirection(direction)
    ELSE IF toGeobigint(geobigint).type # "ok" THEN toGeobigint(geobigint)
    ELSE NeighborOfBoxBigInt(_decodeBoundingBoxBigInt(geobigint, bits), direction, bits)

\* mutant of EachDirection: the last direction is not visited
EachDirectionButLast == {directions[i] : i \in 1 .. (Len(directions) - 1)}

\* the keys ArrayPrototypeForEach(directions, ...) assigns in the neighbours' loops
EachDirection == {directions[i] : i \in 1 .. Len(directions)}

\* getNeighbors on what decodeBoundingBox returned or threw
NeighborsOfBox(box, length) ==
    IF box.type # "ok" THEN box
    ELSE Ok([direction \in EachDirection |->
              _encode(NeighborLat(box.value, direction), NeighborLon(box.value, direction),
                      length)])

getNeighbors(geohash) == NeighborsOfBox(decodeBoundingBox(geohash), Len(geohash))

NeighborsOfBoxInt(box, bits) ==
    Ok([direction \in EachDirection |->
         _encodeInt(NeighborLat(box, direction), NeighborLon(box, direction), bits)])

getNeighborsInt(geoint, bits) ==
    IF toGeointBits(bits).type # "ok" THEN toGeointBits(bits)
    ELSE IF toGeoint(geoint).type # "ok" THEN toGeoint(geoint)
    ELSE NeighborsOfBoxInt(_decodeBoundingBoxInt(geoint, bits), bits)

NeighborsOfBoxBigInt(box, bits) ==
    Ok([direction \in EachDirection |->
         _encodeBigInt(NeighborLat(box, direction), NeighborLon(box, direction), bits)])

getNeighborsBigInt(geobigint, bits) ==
    IF toGeobigintBits(bits).type # "ok" THEN toGeobigintBits(bits)
    ELSE IF toGeobigint(geobigint).type # "ok" THEN toGeobigint(geobigint)
    ELSE NeighborsOfBoxBigInt(_decodeBoundingBoxBigInt(geobigint, bits), bits)

\* the loop of getNeighbors over the array and the table it finds in the module's
\* state: destructuring  directionLookup[direction]  throws when it is undefined
NeighborsAlong(array, lookup, box, length) ==
    IF \E i \in 1 .. Len(array) : array[i] \notin DOMAIN lookup THEN Throw("TypeError")
    ELSE Ok([direction \in {array[i] : i \in 1 .. Len(array)} |->
              _encode(_wrapLatitude(Displace(box[1], box[3], lookup[direction][1])),
                      _wrapLongitude(Displace(box[2], box[4], lookup[direction][2])),
                      length)])

(***************************************************************************)
(* Range queries                                                           *)
(***************************************************************************)
\* mutant of _getBoundingBoxQuery: the range starts at the geohash's own character
_getBoundingBoxQueryUnmasked(geohash, bits) ==
    LET length == Len(geohash)
        precision == (bits + (BITS_PER_CHAR - 1)) \div BITS_PER_CHAR
    IN  IF length < precision THEN << geohash, geohash \o << LIMITER_CHAR >> >>
        ELSE LET lastIndex == precision - 1
                 lastCharIndex == alphabetLookup(geohash[lastIndex + 1])
                 result == SubSeq(geohash, 1, lastIndex)
                 shift == BITS_PER_CHAR - (bits - lastIndex * BITS_PER_CHAR)
                 endLastCharIndex == (lastCharIndex \div (2 ^ shift)) * (2 ^ shift) + 2 ^ shift
                 endLastChar == IF endLastCharIndex > 31 THEN << LIMITER_CHAR >>
                                ELSE AlphabetAt(endLastCharIndex)
             IN  << result \o AlphabetAt(lastCharIndex), result \o endLastChar >>

_getBoundingBoxQuery(geohash, bits) ==
    LET length == Len(geohash)
        precision == (bits + (BITS_PER_CHAR - 1)) \div BITS_PER_CHAR
    IN  IF length < precision THEN << geohash, geohash \o << LIMITER_CHAR >> >>
        ELSE LET lastIndex == precision - 1
                 lastChar == geohash[lastIndex + 1]
                 lastCharIndex == alphabetLookup(lastChar)
                 result == SubSeq(geohash, 1, lastIndex)
                 significantBits == bits - lastIndex * BITS_PER_CHAR
                 shift == BITS_PER_CHAR - significantBits
                 startLastCharIndex == (lastCharIndex \div (2 ^ shift)) * (2 ^ shift)
                 endLastCharIndex == startLastCharIndex + 2 ^ shift
                 startLastChar == AlphabetAt(startLastCharIndex)
                 endLastChar == IF endLastCharIndex > 31 THEN << LIMITER_CHAR >>
                                ELSE AlphabetAt(endLastCharIndex)
             IN  << result \o startLastChar, result \o endLastChar >>

getBoundingBoxQuery(geohash, bits) ==
    IF toGeohashPrecisionBits(bits).type # "ok" THEN toGeohashPrecisionBits(bits)
    ELSE IF validateGeohash(geohash).type # "ok" THEN validateGeohash(geohash)
    ELSE Ok(_getBoundingBoxQuery(geohash, bits))

\* the nine sample points of _getBoundingCirclePoints, in the order of its array
_getBoundingCirclePoints(latitude, longitude, northLat, southLat, minLon, maxLon) ==
    << << latitude, longitude >>, << latitude, minLon >>, << latitude, maxLon >>,
       << northLat, longitude >>, << northLat, minLon >>, << northLat, maxLon >>,
       << southLat, longitude >>, << southLat, minLon >>, << southLat, maxLon >> >>

\* `${startQuery},${endQuery}`
QueryKey(boundingBoxQuery) == boundingBoxQuery[1] \o << "," >> \o boundingBoxQuery[2]

\* mutant of IsNewQuery: every range is taken for a new one
IsNewQueryAlways(uniqueQueriesLookup, key) == TRUE

\* uniqueQueriesLookup[key] === undefined
IsNewQuery(uniqueQueriesLookup, key) == key \notin DOMAIN uniqueQueriesLookup

\* the callback of getBoundingCircleQueries on the point at index, given the range of
\* the point
CircleBody(s, index, boundingBoxQuery) ==
    IF IsNewQuery(s.uniqueQueriesLookup, QueryKey(boundingBoxQuery))
    THEN [result |-> Append(s.result, boundingBoxQuery),
          uniqueQueriesLookup |->
              [key \in DOMAIN s.uniqueQueriesLookup \cup {QueryKey(boundingBoxQuery)} |->
                  IF key \in DOMAIN s.uniqueQueriesLookup THEN s.uniqueQueriesLookup[key]
                  ELSE index],
          index |-> index + 1]
    ELSE [s EXCEPT !.index = index + 1]

\* the range of a sample point: _getBoundingBoxQuery(_encode(pointLat, pointLon,
\* precision), bits) with precision = MathCeil(bits / BITS_PER_CHAR)
PointQuery(point, bits) ==
    _getBoundingBoxQuery(
        _encode(point[1], point[2], (bits + (BITS_PER_CHAR - 1)) \div BITS_PER_CHAR), bits)

(***************************************************************************)
(* Bounding-box enumeration.  The string, integer and wide-integer         *)
(* functions differ in the validator of the last argument and in the       *)
(* encoder and decoder they call; form selects them.                       *)
(***************************************************************************)
ToWidth(form, width) ==
    CASE form = "geohash" -> toGeohashPrecision(width)
      [] form = "geoint" -> toGeointBits(width)
      [] form = "geobigint" -> toGeobigintBits(width)

EncodeAs(form, latitude, longitude, width) ==
    CASE form = "geohash" -> _encode(latitude, longitude, width)
      [] form = "geoint" -> _encodeInt(latitude, longitude, width)
      [] form = "geobigint" -> _encodeBigInt(latitude, longitude, width)

DecodeBoxAs(form, code, width) ==
    CASE form = "geohash" -> _decodeBoundingBox(code).value
      [] form = "geoint" -> _decodeBoundingBoxInt(code, width)
      [] form = "geobigint" -> _decodeBoundingBoxBigInt(code, width)

\* toGeohashPrecision / toGeointBits / toGeobigintBits of an argument that is undefined
\* (omitted by the caller): the mutant returns the largest width
ToWidthOmittedLargest(form) ==
    CASE form = "geohash" -> Ok(MAX_GEOHASH_PRECISION)
      [] form = "geoint" -> Ok(MAX_GEOINT_BITS)
      [] form = "geobigint" -> Ok(MAX_GEOBIGINT_BITS)

ToWidthOmitted(form) ==
    CASE form = "geohash" -> Ok(GEOHASH_PRECISION)
      [] form = "geoint" -> Ok(GEOINT_BITS)
      [] form = "geobigint" -> Ok(GEOBIGINT_BITS)

\* encode(latitude, longitude), encodeInt(latitude, longitude) and
\* encodeBigInt(latitude, longitude): the last argument omitted
EncodedOmitted(form, latitude, longitude) ==
    IF toLatitude(latitude).type # "ok" THEN toLatitude(latitude)
    ELSE IF toLongitude(longitude).type # "ok" THEN toLongitude(longitude)
    ELSE Ok(EncodeAs(form, latitude, longitude, ToWidthOmitted(form).value))

\* the five validations that open the eager functions and the generator bodies
BoxesArgs(form, minLat, minLon, maxLat, maxLon, width) ==
    IF ToWidth(form, width).type # "ok" THEN ToWidth(form, width)
    ELSE IF toLatitude(minLat).type # "ok" THEN toLatitude(minLat)
    ELSE IF toLongitude(minLon).type # "ok" THEN toLongitude(minLon)
    ELSE IF toLatitude(maxLat).type # "ok" THEN toLatitude(maxLat)
    ELSE toLongitude(maxLon)

\* the constants before the loops, once the cell sizes are known
FrameOfSizes(southwest, northeast, latitude, longitude, perLat, perLon) ==
    [latitude |-> latitude, longitude |-> longitude, perLat |-> perLat, perLon |-> perLon,
     latLength |-> MathRoundQuotient(Sub(northeast[1], southwest[1]), perLat),
     lonLength |-> MathRoundQuotient(Sub(northeast[2], southwest[2]), perLon)]

\* the constants before the loops, once the centre of the south-west cell is known
FrameOfCentre(southwest, northeast, latitude, longitude) ==
    FrameOfSizes(southwest, northeast, latitude, longitude,
                 Twice(Sub(southwest[3], latitude)), Twice(Sub(southwest[4], longitude)))

\* the constants before the loops, from the boxes of the two corner cells
FrameOfCorners(southwest, northeast) ==
    FrameOfCentre(southwest, northeast, Half(Add(southwest[1], southwest[3])),
                  Half(Add(southwest[2], southwest[4])))

\* the constants getBoundingBoxes computes before its loops, from the values of
\* southwest and northeast
BoxesFrame(form, minLat, minLon, maxLat, maxLon, width) ==
    CHOOSE frame \in
        {FrameOfCorners(southwest, northeast) :
            southwest \in {DecodeBoxAs(form, EncodeAs(form, minLat, minLon, width), width)},
            northeast \in {DecodeBoxAs(form, EncodeAs(form, maxLat, maxLon, width), width)}} :
        TRUE

\* the cell the loops' body encodes at (latDir, lonDir)
BoxesCell(form, f, latDir, lonDir, width) ==
    LET neighborLat == _wrapLatitude(Add(f.latitude, Times(latDir, f.perLat)))
        neighborLon == _wrapLongitude(Add(f.longitude, Times(lonDir, f.perLon)))
    IN  EncodeAs(form, neighborLat, neighborLon, width)

\* the inner loop of getBoundingBoxes: the cells pushed for one latDir
BoxesRow(form, f, latDir, width) ==
    [j \in 1 .. (f.lonLength.value + 1) |-> BoxesCell(form, f, latDir, j - 1, width)]

\* the outer loop of getBoundingBoxes, from latDir on
RECURSIVE BoxesRows(_, _, _, _)
BoxesRows(form, f, latDir, width) ==
    IF latDir > f.latLength.value THEN << >>
    ELSE BoxesRow(form, f, latDir, width) \o BoxesRows(form, f, latDir + 1, width)

\* the test of the lengths and the loops of getBoundingBoxes
BoxesLoops(form, f, width) ==
    IF NumberIsFinite(f.latLength) /\ NumberIsFinite(f.lonLength)
    THEN Ok(BoxesRows(form, f, 0, width))
    ELSE Ok(<< >>)

\* getBoundingBoxes, getBoundingBoxesInt, getBoundingBoxesBigInt
getBoundingBoxes(form, minLat, minLon, maxLat, maxLon, width) ==
    IF BoxesArgs(form, minLat, minLon, maxLat, maxLon, width).type # "ok"
    THEN BoxesArgs(form, minLat, minLon, maxLat, maxLon, width)
    ELSE BoxesLoops(form, BoxesFrame(form, minLat, minLon, maxLat, maxLon, width), width)

\* the constants a generator body computes before its loops, from the values of
\* southwest and northeast
GeneratorFrame(form, minLat, minLon, maxLat, maxLon, width) ==
    CHOOSE frame \in
        {FrameOfCorners(southwest, northeast) :
            southwest \in {DecodeBoxAs(form, EncodeAs(form, minLat, minLon, width), width)},
            northeast \in {DecodeBoxAs(form, EncodeAs(form, maxLat, maxLon, width), width)}} :
        TRUE

\* mutant of GeneratorResume: the inner loop stops one column early
RECURSIVE GeneratorResumeShortRow(_, _, _)
GeneratorResumeShortRow(f, latDir, lonDir) ==
    IF latDir > f.latLength.value THEN [state |-> "completed"]
    ELSE IF lonDir >= f.lonLength.value THEN GeneratorResumeShortRow(f, latDir + 1, 0)
    ELSE [state |-> "suspendedYield", latDir |-> latDir, lonDir |-> lonDir]

\* a generator body run from the test of its inner loop at (latDir, lonDir) to the
\* next yield, or to the end of the loops
RECURSIVE GeneratorResume(_, _, _)
GeneratorResume(f, latDir, lonDir) ==
    IF latDir > f.latLength.value THEN [state |-> "completed"]
    ELSE IF lonDir > f.lonLength.value THEN GeneratorResume(f, latDir + 1, 0)
    ELSE [state |-> "suspendedYield", latDir |-> latDir, lonDir |-> lonDir]

\* the test of the lengths and the loops of a generator body, to the first yield
GeneratorLoops(f) ==
    IF NumberIsFinite(f.latLength) /\ NumberIsFinite(f.lonLength)
    THEN [frame |-> f] @@ GeneratorResume(f, 0, 0)
    ELSE [state |-> "completed"]

\* the first next() of a generator: the body runs from its top to the first yield
GeneratorStart(form, minLat, minLon, maxLat, maxLon, width) ==
    IF BoxesArgs(form, minLat, minLon, maxLat, maxLon, width).type # "ok"
    THEN [state |-> "completed",
          thrown |-> BoxesArgs(form, minLat, minLon, maxLat, maxLon, width)]
    ELSE GeneratorLoops(GeneratorFrame(form, minLat, minLon, maxLat, maxLon, width))

\* mutant of GeneratorNext: a generator that ran to the end of its loops starts
\* them again
GeneratorNextAgain(g) ==
    IF g.state = "suspendedYield"
    THEN [frame |-> g.frame] @@ GeneratorResume(g.frame, g.latDir, g.lonDir + 1)
    ELSE IF "frame" \in DOMAIN g
    THEN [frame |-> g.frame] @@ GeneratorResume(g.frame, 0, 0)
    ELSE [state |-> "completed"]

\* a later next(): the body continues after the yield at (latDir, lonDir)
GeneratorNext(g) ==
    IF g.state = "suspendedYield"
    THEN [frame |-> g.frame] @@ GeneratorResume(g.frame, g.latDir, g.lonDir + 1)
    ELSE [state |-> "completed"]

\* the value a generator yields at (latDir, lonDir)
GeneratorCell(form, f, latDir, lonDir, width) ==
    LET neighborLat == _wrapLatitude(Add(f.latitude, Times(latDir, f.perLat)))
        neighborLon == _wrapLongitude(Add(f.longitude, Times(lonDir, f.perLon)))
    IN  EncodeAs(form, neighborLat, neighborLon, width)

(***************************************************************************)
(* The variants of the module: src/lib/index.mjs and the two earlier ones   *)
(* kept beside it.  Their codecs are the same loops; their validators of    *)
(* the bit-width and of the integer code, and their wrap functions, differ. *)
(***************************************************************************)
Variants == {"index", "part_001", "part_002"}

toGeointBitsOf(variant, value) ==
    IF variant # "part_002" THEN toGeointBits(value)
    ELSE IF value < 0 \/ value > MAX_GEOINT_BITS THEN Throw("RangeError")
    ELSE Ok(value)

toGeobigintBitsOf(variant, value) ==
    IF variant # "part_002" THEN toGeobigintBits(value)
    ELSE IF value < 0 \/ value > MAX_GEOBIGINT_BITS THEN Throw("RangeError")
    ELSE Ok(value)

toGeointOf(variant, value) ==
    IF variant # "part_002" THEN toGeoint(value)
    ELSE IF IntLess(MAX_GEOINT, value) THEN Throw("RangeError")
    ELSE Ok(value)

toGeobigintOf(variant, value) ==
    IF variant # "part_002" THEN toGeobigint(value)
    ELSE IF IntLess(MAX_GEOBIGINT, value) THEN Throw("RangeError")
    ELSE Ok(value)

\* wrapLatitude and wrapLongitude of the earlier variants
wrapLatitudeEarlier(latitude) ==
    IF Less(latitude, MIN_LATITUDE) THEN MIN_LATITUDE
    ELSE IF Less(MAX_LATITUDE, latitude) THEN MAX_LATITUDE
    ELSE latitude

wrapLongitudeEarlier(longitude) ==
    IF Less(longitude, MIN_LONGITUDE) THEN Add(MAX_LONGITUDE, Rem(longitude, MAX_LONGITUDE))
    ELSE IF Less(MAX_LONGITUDE, longitude)
    THEN Add(MIN_LONGITUDE, Rem(longitude, MAX_LONGITUDE))
    ELSE longitude

\* mutant of wrapLatitudeOf: every variant reflects across the pole
wrapLatitudeOfReflecting(variant, latitude) == _wrapLatitude(latitude)

wrapLatitudeOf(variant, latitude) ==
    IF variant = "index" THEN _wrapLatitude(latitude) ELSE wrapLatitudeEarlier(latitude)

wrapLongitudeOf(variant, longitude) ==
    IF variant = "index" THEN _wrapLongitude(longitude) ELSE wrapLongitudeEarlier(longitude)

encodeIntOf(variant, latitude, longitude, bits) ==
    IF toGeointBitsOf(variant, bits).type # "ok" THEN toGeointBitsOf(variant, bits)
    ELSE IF toLatitude(latitude).type # "ok" THEN toLatitude(latitude)
    ELSE IF toLongitude(longitude).type # "ok" THEN toLongitude(longitude)
    ELSE Ok(_encodeInt(latitude, longitude, bits))

encodeBigIntOf(variant, latitude, longitude, bits) ==
    IF toGeobigintBitsOf(variant, bits).type # "ok" THEN toGeobigintBitsOf(variant, bits)
    ELSE IF toLatitude(latitude).type # "ok" THEN toLatitude(latitude)
    ELSE IF toLongitude(longitude).type # "ok" THEN toLongitude(longitude)
    ELSE Ok(_encodeBigInt(latitude, longitude, bits))

decodeIntOf(variant, geoint, bits) ==
    IF toGeointBitsOf(variant, bits).type # "ok" THEN toGeointBitsOf(variant, bits)
    ELSE IF toGeointOf(variant, geoint).type # "ok" THEN toGeointOf(variant, geoint)
    ELSE Ok(boundingBoxToLocation(_decodeBoundingBoxInt(geoint, bits)))

decodeBigIntOf(variant, geobigint, bits) ==
    IF toGeobigintBitsOf(variant, bits).type # "ok" THEN toGeobigintBitsOf(variant, bits)
    ELSE IF toGeobigintOf(variant, geobigint).type # "ok" THEN toGeobigintOf(variant, geobigint)
    ELSE Ok(boundingBoxToLocation(_decodeBoundingBoxBigInt(geobigint, bits)))

NeighborLatOf(variant, box, direction) ==
    wrapLatitudeOf(variant, Displace(box[1], box[3], directionLookup[direction][1]))

NeighborLonOf(variant, box, direction) ==
    wrapLongitudeOf(variant, Displace(box[2], box[4], directionLookup[direction][2]))

NeighborOfBoxIntOf(variant, box, direction, bits) ==
    Ok(_encodeInt(NeighborLatOf(variant, box, direction),
                  NeighborLonOf(variant, box, direction), bits))

getNeighborIntOf(variant, geoint, direction, bits) ==
    IF toGeointBitsOf(variant, bits).type # "ok" THEN toGeointBitsOf(variant, bits)
    ELSE IF validateDirection(direction).type # "ok" THEN validateDirection(direction)
    ELSE IF toGeointOf(variant, geoint).type # "ok" THEN toGeointOf(variant, geoint)
    ELSE NeighborOfBoxIntOf(variant, _decodeBoundingBoxInt(geoint, bits), direction, bits)

NeighborOfBoxBigIntOf(variant, box, direction, bits) ==
    Ok(_encodeBigInt(NeighborLatOf(variant, box, direction),
                     NeighborLonOf(variant, box, direction), bits))

getNeighborBigIntOf(variant, geobigint, direction, bits) ==
    IF toGeobigintBitsOf(variant, bits).type # "ok" THEN toGeobigintBitsOf(variant, bits)
    ELSE IF validateDirection(direction).type # "ok" THEN validateDirection(direction)
    ELSE IF toGeobigintOf(variant, geobigint).type # "ok" THEN toGeobigintOf(variant, geobigint)
    ELSE NeighborOfBoxBigIntOf(variant, _decodeBoundingBoxBigInt(geobigint, bits), direction,
                               bits)

(***************************************************************************)
(* Inputs of the model                                                     *)
(***************************************************************************)
Forms == {"geohash", "geoint", "geobigint"}

\* 64.0123456789, the coordinate of the package's documentation
Documented == << FALSE, 1048778, 4556743, 14024704 >>

\* 2^-45 degree: the spacing of the doubles between 128 and 256
Step == << FALSE, 0, 0, 2 ^ 17 >>

LatitudeAnchors == {Deg(-90), Deg(0), Documented, Deg(90)}
LongitudeAnchors == {Deg(-180), Deg(0), Documented, Deg(180)}

\* the double k steps from an anchor: toward zero, and upward from zero
Nudge(v, k) ==
    IF v = Deg(0) THEN Times(k, Step)
    ELSE IF v[1] THEN Add(v, Times(k, Step))
    ELSE Sub(v, Times(k, Step))

Anchors == LatitudeAnchors \X LongitudeAnchors

\* the south-west and north-east corners of the domain, its centre, the documented
\* coordinate
Diagonal ==
    {<< Deg(-90), Deg(-180) >>, << Deg(0), Deg(0) >>, << Documented, Documented >>,
     << Deg(90), Deg(180) >>}

\* the anchors, and the coordinates up to Spread steps inside the diagonal ones
Coordinates ==
    Anchors \cup {<< Nudge(c[1], k), Nudge(c[2], k) >> : c \in Diagonal, k \in 1 .. Spread}

\* the precisions (characters) or bit-widths a form accepts
Widths(form) ==
    CASE form = "geohash" -> 1 .. MAX_GEOHASH_PRECISION
      [] form = "geoint" -> 1 .. MAX_GEOINT_BITS
      [] form = "geobigint" -> 1 .. MAX_GEOBIGINT_BITS

(***************************************************************************)
(* Specification Spec: a coordinate is encoded, the encoder's loop running *)
(* one iteration per step, and the code it returns is decoded again.       *)
(***************************************************************************)
Locals(form) == IF form = "geohash" THEN EncodeLocals ELSE EncodeIntLocals

\* the while condition of the encoder of the form
Looping(form, s, width) ==
    IF form = "geohash" THEN Len(s.result) < width ELSE s.bitCount < width

Body(form, s, latitude, longitude) ==
    CASE form = "geohash" -> EncodeBody(s, latitude, longitude)
      [] form = "geoint" -> EncodeIntBody(s, latitude, longitude)
      [] form = "geobigint" -> EncodeBigIntBody(s, latitude, longitude)

\* the validation the exported encode / encodeInt / encodeBigInt runs first
EncodeArgs(form, latitude, longitude, width) ==
    IF ToWidth(form, width).type # "ok" THEN ToWidth(form, width)
    ELSE IF toLatitude(latitude).type # "ok" THEN toLatitude(latitude)
    ELSE toLongitude(longitude)

\* the exported decode / decodeInt / decodeBigInt, with the error flag set
Decoded(form, code, width) ==
    CASE form = "geohash" -> decode(code)
      [] form = "geoint" -> decodeInt(code, width)
      [] form = "geobigint" -> decodeBigInt(code, width)

\* the exported decodeBoundingBox / decodeBoundingBoxInt / decodeBoundingBoxBigInt
DecodedBox(form, code, width) ==
    CASE form = "geohash" -> decodeBoundingBox(code)
      [] form = "geoint" -> decodeBoundingBoxInt(code, width)
      [] form = "geobigint" -> decodeBoundingBoxBigInt(code, width)

Init ==
    /\ pc = "start"
    /\ \E form \in Forms, c \in Coordinates :
         \E width \in Widths(form) :
             input = [form |-> form, latitude |-> c[1], longitude |-> c[2],
                      precision |-> width]
    /\ enc = None
    /\ out = None
    /\ gen = None
    /\ pulled = << >>

\* encode(latitude, longitude, precision) is called: validation, then the loop starts
EncodeCall ==
    /\ pc = "start"
    /\ EncodeArgs(input.form, input.latitude, input.longitude, input.precision).type = "ok"
    /\ pc' = "encode"
    /\ enc' = Locals(input.form)
    /\ UNCHANGED <<input, out, gen, pulled>>

\* one iteration of the encoder's loop
EncodeStep ==
    /\ pc = "encode"
    /\ Looping(input.form, enc, input.precision)
    /\ enc' = Body(input.form, enc, input.latitude, input.longitude)
    /\ UNCHANGED <<pc, input, out, gen, pulled>>

\* the loop ends and the code is returned
EncodeReturn ==
    /\ pc = "encode"
    /\ ~Looping(input.form, enc, input.precision)
    /\ pc' = "encoded"
    /\ out' = [code |-> enc.result]
    /\ UNCHANGED <<input, enc, gen, pulled>>

\* the returned code is decoded at the same width: the box, and the location with
\* the error flag
Decode ==
    /\ pc = "encoded"
    /\ pc' = "decoded"
    /\ out' = [code |-> out.code,
               box |-> DecodedBox(input.form, out.code, input.precision),
               location |-> Decoded(input.form, out.code, input.precision)]
    /\ UNCHANGED <<input, enc, gen, pulled>>

Next == EncodeCall \/ EncodeStep \/ EncodeReturn \/ Decode

Spec == Init /\ [][Next]_vars

(***************************************************************************)
(* Specification SpecCode: a code is handed to the decoders and to the     *)
(* range query.                                                            *)
(***************************************************************************)
\* the geohashes the encoder makes of the anchors, at every precision
ValidGeohashes ==
    {_encode(c[1], c[2], n) : c \in Anchors, n \in 1 .. MAX_GEOHASH_PRECISION}

\* a string with the character at i replaced by c and, if j # i, the one at j by d
Corrupt(h, i, j, c, d) ==
    [k \in 1 .. Len(h) |-> IF k = i THEN c ELSE IF k = j THEN d ELSE h[k]]

\* pairs of characters outside the alphabet
Strangers == {<< "a", "~" >>, << "~", "A" >>}

\* the documented geohash of n characters with the character at i replaced and, with
\* it, the last one (j = n) or no other (j = 0)
InvalidOfLength(n) ==
    {Corrupt(_encode(Documented, Documented, n), i, j, cd[1], cd[2]) :
        i \in 1 .. n, j \in {0, n}, cd \in Strangers}

InvalidGeohashes == UNION {InvalidOfLength(n) : n \in 1 .. MAX_GEOHASH_PRECISION}

\* the empty string and a string of 23 characters
OutOfLength == {<< >>, [k \in 1 .. (MAX_GEOHASH_PRECISION + 1) |-> "0"]}

Geohashes == ValidGeohashes \cup InvalidGeohashes \cup OutOfLength

\* the codes of a form at a width: what the encoders make of the anchors and, of
\* strings, the invalid ones
Codes(form, width) ==
    CASE form = "geohash" -> {h \in Geohashes : Len(h) = width}
      [] form = "geoint" -> {_encodeInt(c[1], c[2], width) : c \in Anchors}
      [] form = "geobigint" -> {_encodeBigInt(c[1], c[2], width) : c \in Anchors}

InitCode ==
    /\ pc = "start"
    /\ \E form \in Forms :
         \E width \in (IF form = "geohash" THEN 0 .. (MAX_GEOHASH_PRECISION + 1)
                       ELSE Widths(form)) :
             \E code \in Codes(form, width) :
                 input = [form |-> form, code |-> code, precision |-> width]
    /\ enc = None
    /\ out = None
    /\ gen = None
    /\ pulled = << >>

\* decodeBoundingBox(code) and decode(code, true)
DecodeCode ==
    /\ pc = "start"
    /\ pc' = "decoded"
    /\ out' = [box |-> DecodedBox(input.form, input.code, input.precision),
               location |-> Decoded(input.form, input.code, input.precision)]
    /\ UNCHANGED <<input, enc, gen, pulled>>

\* getBoundingBoxQuery(geohash, bits)
GetBoundingBoxQuery ==
    /\ pc = "start"
    /\ input.form = "geohash"
    /\ \E bits \in 0 .. (MAX_GEOHASH_PRECISION_BITS + 1) :
         out' = [bits |-> bits, query |-> getBoundingBoxQuery(input.code, bits)]
    /\ pc' = "query"
    /\ UNCHANGED <<input, enc, gen, pulled>>

NextCode == DecodeCode \/ GetBoundingBoxQuery

SpecCode == InitCode /\ [][NextCode]_vars

(***************************************************************************)
(* Specification SpecNeighbors: the neighbours of a code are asked for,    *)
(* one by one and all at once, and a neighbour's neighbour back.           *)
(***************************************************************************)
\* the bit-widths of the integer forms the neighbour functions are tried at
SampledBits == {1, 2, 3, 5, 8, 13, 21, 34, 52, 55, 89, 110}

NeighborWidths(form) ==
    IF form = "geohash" THEN Widths(form) ELSE Widths(form) \cap SampledBits

\* the directions a caller passes: the eight, and a string that is none of them
Directions == DOMAIN directionLookup \cup {"up"}

\* the direction of the reverse displacement
Opposite(direction) ==
    CHOOSE d \in DOMAIN directionLookup :
        /\ directionLookup[d][1] = -directionLookup[direction][1]
        /\ directionLookup[d][2] = -directionLookup[direction][2]

\* getNeighbor / getNeighborInt / getNeighborBigInt
NeighborAs(form, code, direction, width) ==
    CASE form = "geohash" -> getNeighbor(code, direction)
      [] form = "geoint" -> getNeighborInt(code, direction, width)
      [] form = "geobigint" -> getNeighborBigInt(code, direction, width)

\* getNeighbors / getNeighborsInt / getNeighborsBigInt
NeighborsAs(form, code, width) ==
    CASE form = "geohash" -> getNeighbors(code)
      [] form = "geoint" -> getNeighborsInt(code, width)
      [] form = "geobigint" -> getNeighborsBigInt(code, width)

InitNeighbors ==
    /\ pc = "start"
    /\ \E form \in Forms, c \in Diagonal :
         \E width \in NeighborWidths(form) :
             input = [form |-> form, code |-> EncodeAs(form, c[1], c[2], width),
                      precision |-> width]
    /\ enc = None
    /\ out = None
    /\ gen = None
    /\ pulled = << >>

\* getNeighbor(code, direction)
GetNeighbor ==
    /\ pc = "start"
    /\ \E direction \in Directions :
         out' = [direction |-> direction,
                 neighbor |-> NeighborAs(input.form, input.code, direction, input.precision)]
    /\ pc' = "neighbor"
    /\ UNCHANGED <<input, enc, gen, pulled>>

\* getNeighbor(neighbor, opposite direction), on the neighbour just returned
GetNeighborBack ==
    /\ pc = "neighbor"
    /\ out.neighbor.type = "ok"
    /\ pc' = "back"
    /\ out' = [direction |-> out.direction, neighbor |-> out.neighbor,
               back |-> NeighborAs(input.form, out.neighbor.value, Opposite(out.direction),
                                   input.precision)]
    /\ UNCHANGED <<input, enc, gen, pulled>>

\* getNeighbors(code)
GetNeighbors ==
    /\ pc = "start"
    /\ pc' = "neighbors"
    /\ out' = [neighbors |-> NeighborsAs(input.form, input.code, input.precision)]
    /\ UNCHANGED <<input, enc, gen, pulled>>

NextNeighbors == GetNeighbor \/ GetNeighborBack \/ GetNeighbors

SpecNeighbors == InitNeighbors /\ [][NextNeighbors]_vars

(***************************************************************************)
(* Specification SpecBoxes: the cells between two corners are enumerated,  *)
(* by the eager function and then by the generator, one pull per step.     *)
(***************************************************************************)
Corners ==
    {<< Deg(-90), Deg(-180) >>, << Deg(0), Deg(0) >>, << Deg(45), Deg(90) >>,
     << Documented, Documented >>, << Deg(90), Deg(180) >>}

\* a corner no validation accepts
OutOfRange == << Deg(91), Deg(0) >>

BoxWidths(form) ==
    IF form = "geohash" THEN 1 .. (MaxBoxBits \div BITS_PER_CHAR) ELSE 1 .. MaxBoxBits

\* the largest precision or bit-width of a form
LargestWidth(form) ==
    CASE form = "geohash" -> MAX_GEOHASH_PRECISION
      [] form = "geoint" -> MAX_GEOINT_BITS
      [] form = "geobigint" -> MAX_GEOBIGINT_BITS

\* the forms that have codes of 105 bits, and their width of 105 bits
WideForms == {"geohash", "geobigint"}

WideWidth(form) == IF form = "geohash" THEN 21 ELSE 21 * BITS_PER_CHAR

\* arguments with one out of its range: the width, the longitude of the south-west
\* corner, the latitude or the longitude of the north-east corner
Refused(form) ==
    {<< Deg(0), Deg(0), Documented, Documented, width >> :
        width \in {-1, 0, LargestWidth(form) + 1}}
        \cup {<< Deg(0), Deg(-181), Documented, Documented, 1 >>,
               << Deg(0), Deg(0), Deg(-91), Documented, 1 >>,
               << Deg(0), Deg(0), Documented, Deg(181), 1 >>}

\* two corners at the widths up to MaxBoxBits, or twice the same corner at the
\* largest width, or at 105 bits the corner (-90, 180) and, as the north-east one,
\* the point 2^-44 degree west of it, or arguments that are refused
InitBoxes ==
    /\ pc = "start"
    /\ \/ \E form \in Forms, sw \in Corners \cup {OutOfRange}, ne \in Corners :
            \E width \in BoxWidths(form) \cup {LargestWidth(form)} :
                /\ width \notin BoxWidths(form) => sw = ne
                /\ input = [form |-> form, minLat |-> sw[1], minLon |-> sw[2],
                            maxLat |-> ne[1], maxLon |-> ne[2], precision |-> width]
       \/ \E form \in WideForms :
            input = [form |-> form, minLat |-> Deg(-90), minLon |-> Deg(180),
                     maxLat |-> Deg(-90), maxLon |-> Nudge(Deg(180), 2),
                     precision |-> WideWidth(form)]
       \/ \E form \in Forms : \E refused \in Refused(form) :
            input = [form |-> form, minLat |-> refused[1], minLon |-> refused[2],
                     maxLat |-> refused[3], maxLon |-> refused[4],
                     precision |-> refused[5]]
    /\ enc = None
    /\ out = None
    /\ gen = None
    /\ pulled = << >>

\* getBoundingBoxes(minLat, minLon, maxLat, maxLon, precision)
GetBoundingBoxes ==
    /\ pc = "start"
    /\ pc' = "eager"
    /\ out' = getBoundingBoxes(input.form, input.minLat, input.minLon, input.maxLat,
                               input.maxLon, input.precision)
    /\ UNCHANGED <<input, enc, gen, pulled>>

\* mutant of CreateGenerator: the body runs to its first yield, to its end or to a
\* throw when the generator is created
CreateGeneratorStarted ==
    /\ pc = "eager"
    /\ pc' = "created"
    /\ gen' = GeneratorStart(input.form, input.minLat, input.minLon, input.maxLat,
                             input.maxLon, input.precision)
    /\ UNCHANGED <<input, enc, out, pulled>>

\* boundingBoxesGenerator(...) is called: a suspended generator, nothing has run
CreateGenerator ==
    /\ pc = "eager"
    /\ pc' = "created"
    /\ gen' = [state |-> "suspendedStart"]
    /\ UNCHANGED <<input, enc, out, pulled>>

\* next() on the generator: its body runs to the next yield, to its end or to a throw
Pull ==
    /\ pc \in {"created", "pulling"}
    /\ gen.state # "completed"
    /\ pc' = "pulling"
    /\ gen' = IF gen.state = "suspendedStart"
              THEN GeneratorStart(input.form, input.minLat, input.minLon, input.maxLat,
                                  input.maxLon, input.precision)
              ELSE GeneratorNext(gen)
    /\ pulled' = IF gen'.state = "suspendedYield"
                 THEN Append(pulled, GeneratorCell(input.form, gen'.frame, gen'.latDir,
                                                   gen'.lonDir, input.precision))
                 ELSE pulled
    /\ UNCHANGED <<input, enc, out>>

\* next() on a generator that has completed: no code of the body is left to run
PullCompleted ==
    /\ pc \in {"pulling", "exhausted"}
    /\ gen.state = "completed"
    /\ pc' = "exhausted"
    /\ gen' = GeneratorNext(gen)
    /\ pulled' = IF gen'.state = "suspendedYield"
                 THEN Append(pulled, GeneratorCell(input.form, gen'.frame, gen'.latDir,
                                                   gen'.lonDir, input.precision))
                 ELSE pulled
    /\ UNCHANGED <<input, enc, out>>

NextBoxes == GetBoundingBoxes \/ CreateGenerator \/ Pull \/ PullCompleted

SpecBoxes == InitBoxes /\ [][NextBoxes]_vars

\* getNeighbor of a variant from the box on
NeighborOfBoxOf(variant, box, direction, length) ==
    IF box.type # "ok" THEN box
    ELSE Ok(_encode(NeighborLatOf(variant, box.value, direction),
                    NeighborLonOf(variant, box.value, direction), length))

\* getNeighbor / getNeighborInt / getNeighborBigInt of a variant up to the box: the
\* validation of the arguments, and the box decoded from the code
NeighborBoxOf(variant, form, code, direction, width) ==
    CASE form = "geohash" ->
            IF validateDirection(direction).type # "ok" THEN validateDirection(direction)
            ELSE decodeBoundingBox(code)
      [] form = "geoint" ->
            IF toGeointBitsOf(variant, width).type # "ok" THEN toGeointBitsOf(variant, width)
            ELSE IF validateDirection(direction).type # "ok" THEN validateDirection(direction)
            ELSE IF toGeointOf(variant, code).type # "ok" THEN toGeointOf(variant, code)
            ELSE Ok(_decodeBoundingBoxInt(code, width))
      [] form = "geobigint" ->
            IF toGeobigintBitsOf(variant, width).type # "ok"
            THEN toGeobigintBitsOf(variant, width)
            ELSE IF validateDirection(direction).type # "ok" THEN validateDirection(direction)
            ELSE IF toGeobigintOf(variant, code).type # "ok" THEN toGeobigintOf(variant, code)
            ELSE Ok(_decodeBoundingBoxBigInt(code, width))

\* and from the box on: the displaced centre is wrapped and encoded
NeighborOfBoxAs(variant, form, box, direction, width) ==
    IF box.type # "ok" THEN box
    ELSE CASE form = "geohash" -> NeighborOfBoxOf(variant, box, direction, width)
           [] form = "geoint" -> NeighborOfBoxIntOf(variant, box.value, direction, width)
           [] form = "geobigint" ->
                  NeighborOfBoxBigIntOf(variant, box.value, direction, width)

(***************************************************************************)
(* Specification SpecLimits: a function that takes a precision or a         *)
(* bit-width is called, in one of the variants, with a width in or around   *)
(* its range.                                                              *)
(***************************************************************************)
LimitOperations ==
    {"encode", "encodeInt", "decodeInt", "getNeighborInt", "encodeBigInt", "decodeBigInt",
     "getNeighborBigInt"}

\* the largest width the specification gives for the operation
Limit(operation) ==
    CASE operation = "encode" -> 22
      [] operation \in {"encodeInt", "decodeInt", "getNeighborInt"} -> 52
      [] operation \in {"encodeBigInt", "decodeBigInt", "getNeighborBigInt"} -> 110

\* the integer code 1
One == Shift(Zero, 1)

\* the call of the operation with the width, on the documented coordinate, the code 1
\* and the direction north
CallWithWidth(variant, operation, width) ==
    CASE operation = "encode" -> encode(Documented, Documented, width)
      [] operation = "encodeInt" -> encodeIntOf(variant, Documented, Documented, width)
      [] operation = "decodeInt" -> decodeIntOf(variant, One, width)
      [] operation = "getNeighborInt" -> getNeighborIntOf(variant, One, "north", width)
      [] operation = "encodeBigInt" -> encodeBigIntOf(variant, Documented, Documented, width)
      [] operation = "decodeBigInt" -> decodeBigIntOf(variant, One, width)
      [] operation = "getNeighborBigInt" -> getNeighborBigIntOf(variant, One, "north", width)

InitLimits ==
    /\ pc = "start"
    /\ \E variant \in Variants, operation \in LimitOperations :
         \E width \in -1 .. (Limit(operation) + 1) :
             input = [variant |-> variant, operation |-> operation, precision |-> width]
    /\ enc = None
    /\ out = None
    /\ gen = None
    /\ pulled = << >>

\* the call is made and returns or throws
CallLimited ==
    /\ pc = "start"
    /\ pc' = "called"
    /\ out' = CallWithWidth(input.variant, input.operation, input.precision)
    /\ UNCHANGED <<input, enc, gen, pulled>>

NextLimits == CallLimited

SpecLimits == InitLimits /\ [][NextLimits]_vars

(***************************************************************************)
(* Specification SpecPrecision: a coordinate is encoded and decoded at a    *)
(* width, and then at the next width.                                       *)
(***************************************************************************)
\* the exported encode / encodeInt / encodeBigInt
Encoded(form, latitude, longitude, width) ==
    CASE form = "geohash" -> encode(latitude, longitude, width)
      [] form = "geoint" -> encodeInt(latitude, longitude, width)
      [] form = "geobigint" -> encodeBigInt(latitude, longitude, width)

\* decode(code, true) on what encode returned
DecodedOf(form, code, width) ==
    IF code.type # "ok" THEN code ELSE Decoded(form, code.value, width)

\* decode(encode(latitude, longitude, width), true), and the Int and BigInt ones
LocationAt(form, latitude, longitude, width) ==
    DecodedOf(form, Encoded(form, latitude, longitude, width), width)

InitPrecision ==
    /\ pc = "start"
    /\ \E form \in Forms, c \in Coordinates :
         \E width \in Widths(form) :
             /\ width + 1 \in Widths(form)
             /\ input = [form |-> form, latitude |-> c[1], longitude |-> c[2],
                         precision |-> width]
    /\ enc = None
    /\ out = None
    /\ gen = None
    /\ pulled = << >>

\* decode(encode(latitude, longitude, precision), true)
LocateAtWidth ==
    /\ pc = "start"
    /\ pc' = "at"
    /\ out' = [at |-> LocationAt(input.form, input.latitude, input.longitude,
                                 input.precision)]
    /\ UNCHANGED <<input, enc, gen, pulled>>

\* decode(encode(latitude, longitude, precision + 1), true)
LocateAtNextWidth ==
    /\ pc = "at"
    /\ pc' = "next"
    /\ out' = [at |-> out.at,
               next |-> LocationAt(input.form, input.latitude, input.longitude,
                                   input.precision + 1)]
    /\ UNCHANGED <<input, enc, gen, pulled>>

NextPrecision == LocateAtWidth \/ LocateAtNextWidth

SpecPrecision == InitPrecision /\ [][NextPrecision]_vars

(***************************************************************************)
(* Specification SpecDefault: a coordinate is encoded with the precision or *)
(* bit-width omitted, and then with one given.                             *)
(***************************************************************************)
InitDefault ==
    /\ pc = "start"
    /\ \E form \in Forms, c \in Coordinates :
         input = [form |-> form, latitude |-> c[1], longitude |-> c[2]]
    /\ enc = None
    /\ out = None
    /\ gen = None
    /\ pulled = << >>

\* encode(latitude, longitude)
EncodeOmitted ==
    /\ pc = "start"
    /\ pc' = "omitted"
    /\ out' = [omitted |-> EncodedOmitted(input.form, input.latitude, input.longitude)]
    /\ UNCHANGED <<input, enc, gen, pulled>>

\* encode(latitude, longitude, precision)
EncodeGiven ==
    /\ pc = "omitted"
    /\ pc' = "given"
    /\ \E width \in Widths(input.form) :
         out' = [omitted |-> out.omitted, precision |-> width,
                 given |-> Encoded(input.form, input.latitude, input.longitude, width)]
    /\ UNCHANGED <<input, enc, gen, pulled>>

NextDefault == EncodeOmitted \/ EncodeGiven

SpecDefault == InitDefault /\ [][NextDefault]_vars

(***************************************************************************)
(* Specification SpecWrap: a number is handed to wrapLatitude or to         *)
(* wrapLongitude.                                                          *)
(***************************************************************************)
\* the whole and the half degrees up to MaxWrap, of either sign
WrapInputs ==
    {Deg(n) : n \in -MaxWrap .. MaxWrap}
        \cup {Add(Deg(n), Half(Deg(1))) : n \in -MaxWrap .. (MaxWrap - 1)}

InitWrap ==
    /\ pc = "start"
    /\ \E function \in {"wrapLatitude", "wrapLongitude"}, x \in WrapInputs :
         input = [function |-> function, x |-> x]
    /\ enc = None
    /\ out = None
    /\ gen = None
    /\ pulled = << >>

WrapLatitude ==
    /\ pc = "start"
    /\ input.function = "wrapLatitude"
    /\ pc' = "wrapped"
    /\ out' = Ok(wrapLatitude(input.x))
    /\ UNCHANGED <<input, enc, gen, pulled>>

WrapLongitude ==
    /\ pc = "start"
    /\ input.function = "wrapLongitude"
    /\ pc' = "wrapped"
    /\ out' = Ok(wrapLongitude(input.x))
    /\ UNCHANGED <<input, enc, gen, pulled>>

NextWrap == WrapLatitude \/ WrapLongitude

SpecWrap == InitWrap /\ [][NextWrap]_vars

(***************************************************************************)
(* Specification SpecVincenty: getVincentyDistance runs its refinement      *)
(* loop, one iteration per step.  The trigonometry of an iteration is not   *)
(* computed: what the loop's control reads of it is drawn, whether sinSigma *)
(* is 0 and how lambda - lambdaP compares with EPSILON.  lambda is NaN when *)
(* cosSqAlpha is 0 (both points on the equator), and a comparison with NaN  *)
(* is false.                                                               *)
(***************************************************************************)
Differences == {"above", "within", "NaN"}

\* MathAbs(lambda - lambdaP) > EPSILON
AboveEpsilon(difference) == difference = "above"

InitVincenty ==
    /\ pc = "start"
    /\ input = None
    /\ enc = None
    /\ out = None
    /\ gen = None
    /\ pulled = << >>

\* the validation and the set-up, down to  let index = 100
VincentyEnter ==
    /\ pc = "start"
    /\ pc' = "do"
    /\ enc' = [index |-> VINCENTY_ITERATIONS, iterations |-> 0,
               sinSigma0 |-> FALSE, difference |-> "above"]
    /\ UNCHANGED <<input, out, gen, pulled>>

\* the body of  do { ... } while (--index > 0 && MathAbs(lambda - lambdaP) > EPSILON)
\* and the test that follows it
VincentyIterate ==
    /\ pc = "do"
    /\ \E sinSigma0 \in BOOLEAN, difference \in Differences :
         IF sinSigma0
         THEN /\ pc' = "returned"
              /\ enc' = [enc EXCEPT !.iterations = @ + 1, !.sinSigma0 = TRUE]
              /\ out' = [type |-> "ok", zero |-> TRUE]
         ELSE /\ enc' = [enc EXCEPT !.iterations = @ + 1, !.index = @ - 1,
                                    !.difference = difference]
              /\ pc' = IF enc.index - 1 > 0 /\ AboveEpsilon(difference)
                       THEN "do" ELSE "done"
              /\ out' = out
    /\ UNCHANGED <<input, gen, pulled>>

\* if (index === 0) { return 0 } ... return b * A * (sigma - deltaSigma)
VincentyReturn ==
    /\ pc = "done"
    /\ pc' = "returned"
    /\ out' = [type |-> "ok", zero |-> enc.index = 0]
    /\ UNCHANGED <<input, enc, gen, pulled>>

NextVincenty == VincentyEnter \/ VincentyIterate \/ VincentyReturn

SpecVincenty == InitVincenty /\ [][NextVincenty]_vars

(***************************************************************************)
(* Specification SpecShared: one caller interleaves the pulls of two lazy   *)
(* sequences with calls of getDirections and getNeighbors, mutates the      *)
(* array getDirections returned, and abandons sequences.  enc holds the     *)
(* state of the module: the heap of arrays, whose first is the module's     *)
(* directions, and the two lookup tables.  pc, gen and pulled hold one      *)
(* entry per sequence.  input holds, beside the arguments, what each call   *)
(* returns when nothing else runs.                                         *)
(***************************************************************************)
Sequences2 == 1 .. 2

\* the argument tuples of the sequences: four cells of one character, four of five bits
Jobs ==
    {[form |-> "geohash", minLat |-> Deg(-90), minLon |-> Deg(-180), maxLat |-> Deg(0),
      maxLon |-> Deg(-90), precision |-> 1],
     [form |-> "geoint", minLat |-> Deg(0), minLon |-> Deg(0), maxLat |-> Documented,
      maxLon |-> Documented, precision |-> 5]}

JobOf(s) == IF s = 1 THEN input.first ELSE input.second

\* what the sequence of a job yields when it alone is pulled to its end: the cells
\* of the eager function (C10)
Alone(job) ==
    getBoundingBoxes(job.form, job.minLat, job.minLon, job.maxLat, job.maxLon,
                     job.precision).value

\* what a caller writes into an array it holds
Overwritten(array) == [array EXCEPT ![1] = "up"]
Popped(array) == SubSeq(array, 1, Len(array) - 1)

InitShared ==
    /\ pc = << "none", "none" >>
    /\ \E first \in Jobs, second \in Jobs :
         input = [first |-> first, second |-> second, geohash |-> << "v", "7" >>,
                  alone |-> << Alone(first), Alone(second) >>,
                  neighbors |-> getNeighbors(<< "v", "7" >>)]
    /\ enc = [heap |-> getDirections(<< >>).heap, directionLookup |-> directionLookup,
              alphabetLookup |-> createAlphabetLookup(ALPHABET)]
    /\ out = [array |-> 0, neighbors |-> None, heap |-> << >>]
    /\ gen = << [state |-> "none"], [state |-> "none"] >>
    /\ pulled = << << >>, << >> >>

\* boundingBoxesGenerator(...) or boundingBoxesIntGenerator(...) is called
CreateSequence ==
    /\ \E s \in Sequences2 :
         /\ pc[s] = "none"
         /\ pc' = [pc EXCEPT ![s] = "live"]
         /\ gen' = [gen EXCEPT ![s] = [state |-> "suspendedStart"]]
    /\ UNCHANGED <<input, enc, out, pulled>>

\* next() on one of the live sequences
PullSequence ==
    /\ \E s \in Sequences2 :
         /\ pc[s] = "live"
         /\ gen[s].state # "completed"
         /\ gen' = [gen EXCEPT ![s] =
                      IF @.state = "suspendedStart"
                      THEN GeneratorStart(JobOf(s).form, JobOf(s).minLat, JobOf(s).minLon,
                                          JobOf(s).maxLat, JobOf(s).maxLon,
                                          JobOf(s).precision)
                      ELSE GeneratorNext(@)]
         /\ pulled' = [pulled EXCEPT ![s] =
                         IF gen'[s].state = "suspendedYield"
                         THEN Append(@, GeneratorCell(JobOf(s).form, gen'[s].frame,
                                                      gen'[s].latDir, gen'[s].lonDir,
                                                      JobOf(s).precision))
                         ELSE @]
    /\ UNCHANGED <<pc, input, enc, out>>

\* the caller drops a sequence it has not pulled to its end
AbandonSequence ==
    /\ \E s \in Sequences2 :
         /\ pc[s] = "live"
         /\ gen[s].state # "completed"
         /\ pc' = [pc EXCEPT ![s] = "abandoned"]
    /\ UNCHANGED <<input, enc, out, gen, pulled>>

\* getDirections(): the caller keeps the reference it is given
CallGetDirections ==
    /\ out.array = 0
    /\ out' = [out EXCEPT !.array = getDirections(enc.heap).array]
    /\ enc' = [enc EXCEPT !.heap = getDirections(@).heap]
    /\ UNCHANGED <<pc, input, gen, pulled>>

\* the caller writes into the array getDirections returned to it
MutateReturned ==
    /\ out.array # 0
    /\ \E array \in {Overwritten(enc.heap[out.array]), Popped(enc.heap[out.array])} :
         /\ Len(array) >= Len(directions) - 1
         /\ enc' = [enc EXCEPT !.heap[out.array] = array]
    /\ UNCHANGED <<pc, input, out, gen, pulled>>

\* getNeighbors(geohash), reading the module's directions and directionLookup
CallGetNeighbors ==
    /\ out' = [out EXCEPT !.neighbors =
                             NeighborsAlong(enc.heap[1], enc.directionLookup,
                                            decodeBoundingBox(input.geohash).value,
                                            Len(input.geohash)),
                           !.heap = enc.heap]
    /\ UNCHANGED <<pc, input, enc, gen, pulled>>

NextShared ==
    \/ CreateSequence
    \/ PullSequence
    \/ AbandonSequence
    \/ CallGetDirections
    \/ MutateReturned
    \/ CallGetNeighbors

SpecShared == InitShared /\ [][NextShared]_vars

(***************************************************************************)
(* Specification SpecCircle: getBoundingCircleQueries runs its loop over    *)
(* the nine sample points, one point per step.  The trigonometry that       *)
(* places the points and chooses the depth is not computed: the three       *)
(* latitudes, the three longitudes and bits are drawn from what it can      *)
(* return, latitudes southLat <= latitude <= northLat in the range,         *)
(* longitudes in the range, bits an integer from 1.                         *)
(***************************************************************************)
CircleLongitudes == {Deg(-180), Deg(0), Documented}

InitCircle ==
    /\ pc = "start"
    /\ \E latitude \in LatitudeAnchors, northLat \in LatitudeAnchors,
          southLat \in LatitudeAnchors, longitude \in CircleLongitudes,
          minLon \in CircleLongitudes, maxLon \in CircleLongitudes,
          bits \in 1 .. MaxCircleBits :
         /\ Leq(southLat, latitude) /\ Leq(latitude, northLat)
         /\ input = [points |-> _getBoundingCirclePoints(latitude, longitude, northLat,
                                                         southLat, minLon, maxLon),
                     bits |-> bits]
    /\ enc = None
    /\ out = None
    /\ gen = None
    /\ pulled = << >>

\* getBoundingCircleQueries down to the loop: an empty result and an empty lookup
CircleCall ==
    /\ pc = "start"
    /\ pc' = "forEach"
    /\ enc' = [result |-> << >>, uniqueQueriesLookup |-> << >>, index |-> 0]
    /\ UNCHANGED <<input, out, gen, pulled>>

\* one call of the callback of ArrayPrototypeForEach(points, ...)
CircleStep ==
    /\ pc = "forEach"
    /\ enc.index < Len(input.points)
    /\ enc' = CircleBody(enc, enc.index, PointQuery(input.points[enc.index + 1], input.bits))
    /\ UNCHANGED <<pc, input, out, gen, pulled>>

\* return result
CircleReturn ==
    /\ pc = "forEach"
    /\ enc.index = Len(input.points)
    /\ pc' = "returned"
    /\ out' = Ok(enc.result)
    /\ UNCHANGED <<input, enc, gen, pulled>>

NextCircle == CircleCall \/ CircleStep \/ CircleReturn

SpecCircle == InitCircle /\ [][NextCircle]_vars

(***************************************************************************)
(* Specification SpecPolar: the neighbour of a code of the northernmost or *)
(* southernmost row is asked of each variant of the module in turn.        *)
(***************************************************************************)
\* the bit-widths of the integer forms: a few, and the widest
PolarBits == {1, 2, 21, MAX_GEOINT_BITS} \cup 104 .. MAX_GEOBIGINT_BITS

PolarWidths(form) ==
    IF form = "geohash" THEN Widths(form) ELSE Widths(form) \cap PolarBits

Poles == {Deg(-90), Deg(90)}

\* toward the pole, along the row and away from the pole
PolarDirections == {"north", "south", "southwest", "east"}

\* the variant called after the one a call has returned from
Following(at) ==
    CASE at = "start" -> "index"
      [] at = "index" -> "part_001"
      [] at = "part_001" -> "part_002"

InitPolar ==
    /\ pc = "start"
    /\ \E form \in Forms, latitude \in Poles, longitude \in CircleLongitudes,
          direction \in PolarDirections :
         \E width \in PolarWidths(form) :
             input = [form |-> form, code |-> EncodeAs(form, latitude, longitude, width),
                      precision |-> width, direction |-> direction]
    /\ enc = None
    /\ out = << >>
    /\ gen = None
    /\ pulled = << >>

\* getNeighbor(code, direction) of the next variant
GetNeighborOf ==
    /\ pc \in {"start", "index", "part_001"}
    /\ pc' = Following(pc)
    /\ \E box \in {NeighborBoxOf(Following(pc), input.form, input.code, input.direction,
                                  input.precision)} :
         out' = Append(out, NeighborOfBoxAs(Following(pc), input.form, box,
                                            input.direction, input.precision))
    /\ UNCHANGED <<input, enc, gen, pulled>>

NextPolar == GetNeighborOf

SpecPolar == InitPolar /\ [][NextPolar]_vars

(***************************************************************************)
(* Specification SpecAbove: an integer code that has bits above the        *)
(* bit-width it is decoded at.                                             *)
(***************************************************************************)
IntegerForms == {"geoint", "geobigint"}

\* the largest code a form accepts: 2^52, 2^110
LargestCode(form) == IF form = "geoint" THEN MAX_GEOINT ELSE MAX_GEOBIGINT

\* the codes handed to the decoder at a width: 2^width, the codes of the anchors at
\* the next and at the largest width, the largest code, the one after it, and 0
CodesAbove(form, width) ==
    {Pow2(width), LargestCode(form), Shift(Pow2(LargestWidth(form) - 1), 1), Zero}
        \cup {EncodeAs(form, c[1], c[2], wider) :
                 c \in Anchors, wider \in {width + 1, LargestWidth(form)} \cap Widths(form)}

InitAbove ==
    /\ pc = "start"
    /\ \E form \in IntegerForms :
         \E width \in NeighborWidths(form) :
             \E code \in CodesAbove(form, width) :
                 input = [form |-> form, code |-> code, precision |-> width]
    /\ enc = None
    /\ out = None
    /\ gen = None
    /\ pulled = << >>

NextAbove == DecodeCode

SpecAbove == InitAbove /\ [][NextAbove]_vars

(***************************************************************************)
(* Specification SpecValue: a value of any type is handed to isGeohash and  *)
(* to decodeBoundingBox.                                                   *)
(***************************************************************************)
\* the types of JavaScript other than string; a String object is an object
OtherKinds == {"undefined", "null", "boolean", "number", "bigint", "symbol", "object"}

\* n surrogate pairs
RECURSIVE Pairs(_)
Pairs(n) == IF n = 0 THEN << >> ELSE << HighSurrogate, LowSurrogate >> \o Pairs(n - 1)

\* strings with code units of surrogates: pairs alone, up to and above 22 code
\* units, a pair inside and after alphabet characters, and halves on their own
SurrogateStrings ==
    {Pairs(n) : n \in {1, 2, 11, 12}}
        \cup {<< "9" >> \o Pairs(1) \o << "q" >>, << HighSurrogate >>, << LowSurrogate >>,
               << LowSurrogate, HighSurrogate >>, << HighSurrogate, "s", LowSurrogate >>}
        \cup {SubSeq(h, 1, 20) \o Pairs(1) : h \in {g \in ValidGeohashes : Len(g) = 22}}

Values ==
    {StringValue(units) : units \in Geohashes \cup SurrogateStrings}
        \cup {OtherValue(kind) : kind \in OtherKinds}

InitValue ==
    /\ pc = "start"
    /\ \E value \in Values : input = [form |-> "geohash", value |-> value]
    /\ enc = None
    /\ out = None
    /\ gen = None
    /\ pulled = << >>

\* isGeohash(value)
IsGeohash ==
    /\ pc = "start"
    /\ pc' = "tested"
    /\ out' = [is |-> isGeohash(input.value)]
    /\ UNCHANGED <<input, enc, gen, pulled>>

\* decodeBoundingBox(value)
DecodeBoundingBox ==
    /\ pc = "tested"
    /\ pc' = "decoded"
    /\ out' = [is |-> out.is, box |-> decodeBoundingBoxOfValue(input.value)]
    /\ UNCHANGED <<input, enc, gen, pulled>>

NextValue == IsGeohash \/ DecodeBoundingBox

SpecValue == InitValue /\ [][NextValue]_vars

(***************************************************************************)
(* Properties of Spec                                                      *)
(***************************************************************************)
AlphabetChars == {ALPHABET[i] : i \in 1 .. BASE}

\* |v - w|, exactly: a magnitude
Gap(v, w) ==
    LET a == MagOf(v)
        b == MagOf(w)
    IN  IF v[1] # w[1] THEN Carry(a[1] + b[1], a[2] + b[2], a[3] + b[3])
        ELSE IF MagLess(a, b) THEN Carry(b[1] - a[1], b[2] - a[2], b[3] - a[3])
        ELSE Carry(a[1] - b[1], a[2] - b[2], a[3] - b[3])

\* a location lies within its own error margin of a coordinate
WithinMargin(location, latitude, longitude) ==
    /\ ~location.error.latitude[1]
    /\ ~location.error.longitude[1]
    /\ ~MagLess(MagOf(location.error.latitude), Gap(location.latitude, latitude))
    /\ ~MagLess(MagOf(location.error.longitude), Gap(location.longitude, longitude))

\* a coordinate lies in a closed box
InBox(box, latitude, longitude) ==
    /\ Leq(box[1], latitude) /\ Leq(latitude, box[3])
    /\ Leq(box[2], longitude) /\ Leq(longitude, box[4])

\* C1: decode(encode(lat, lon, N), true) returns a location with |latitude - lat| <=
\* error.latitude and |longitude - lon| <= error.longitude, and the coordinate lies in
\* the closed box decodeBoundingBox returns, for every precision N in 1..22.
C1_StringRoundTrip ==
    pc = "decoded" /\ input.form = "geohash" =>
        /\ out.location.type = "ok"
        /\ out.box.type = "ok"
        /\ WithinMargin(out.location.value, input.latitude, input.longitude)
        /\ InBox(out.box.value, input.latitude, input.longitude)

\* C2: decodeInt(encodeInt(lat, lon, b), b, true) and decodeBigInt(encodeBigInt(lat,
\* lon, b), b, true) raise no error and return a location whose error margin covers
\* (lat, lon); every value the integer encoders produce is accepted as a code.
C2_IntRoundTrip ==
    pc = "decoded" /\ input.form \in {"geoint", "geobigint"} =>
        /\ out.location.type = "ok"
        /\ WithinMargin(out.location.value, input.latitude, input.longitude)

\* C3: encode returns exactly N characters, all of the alphabet; the accumulator
\* holds bitCount bits, so the index it gives is in 0..31, and it is 0 again after
\* every emitted character.
C3_AlphabetClosure ==
    /\ pc = "encoded" /\ input.form = "geohash" =>
         /\ Len(out.code) = input.precision
         /\ \A i \in 1 .. Len(out.code) : out.code[i] \in AlphabetChars
    /\ pc = "encode" /\ input.form = "geohash" =>
         /\ enc.bitCount \in 0 .. (BITS_PER_CHAR - 1)
         /\ enc.carry \in 0 .. (2 ^ enc.bitCount - 1)
         /\ enc.bitCount = 0 => enc.carry = 0
         /\ \A i \in 1 .. Len(enc.result) : enc.result[i] \in AlphabetChars

\* the documented coordinate at the longest precision: 'v7ms0th6gy07w7hthsg7my'
C3_Witness ==
    /\ pc = "encoded" /\ input.form = "geohash"
    /\ input.latitude = Documented /\ input.longitude = Documented
    /\ out.code = << "v", "7", "m", "s", "0", "t", "h", "6", "g", "y", "0",
                     "7", "w", "7", "h", "t", "h", "s", "g", "7", "m", "y" >>

\* number of bits an encoder loop has emitted
Emitted(form, s) ==
    IF form = "geohash" THEN Len(s.result) * BITS_PER_CHAR + s.bitCount ELSE s.bitCount

\* the last bit an encoder loop emitted (Emitted > 0)
LastBit(form, s) ==
    IF form # "geohash" THEN getBit(s.result, 0)
    ELSE IF s.bitCount > 0 THEN s.carry % 2
    ELSE alphabetLookup(s.result[Len(s.result)]) % 2

Interval(s) == << s.minLat, s.minLon, s.maxLat, s.maxLon, s.isEven >>

\* fresh locals of an encoder, on the interval and axis of s
At(locals, s) ==
    [locals EXCEPT !.minLat = s.minLat, !.maxLat = s.maxLat, !.minLon = s.minLon,
                   !.maxLon = s.maxLon, !.isEven = s.isEven]

\* the bits of a geohash string and of an integer code of a width, first bit first
BitsOfString(code) ==
    [k \in 1 .. (BITS_PER_CHAR * Len(code)) |->
        (alphabetLookup(code[((k - 1) \div BITS_PER_CHAR) + 1])
            \div (2 ^ ((BITS_PER_CHAR - 1) - ((k - 1) % BITS_PER_CHAR)))) % 2]

BitsOfInt(code, bits) == [k \in 1 .. bits |-> getBit(code, bits - k)]

BitsOf(form, code, width) ==
    IF form = "geohash" THEN BitsOfString(code) ELSE BitsOfInt(code, width)

\* one iteration of an encoder: on a tie the bit is 0 and the interval becomes
\* [min, midpoint]; the iteration of each of the three encoders on the same interval
\* emits the same bit and leaves the same interval
TieBreakStep ==
    pc = "encode" /\ enc' # enc =>
        LET bit == LastBit(input.form, enc')
            tie == (IF enc.isEven THEN input.longitude ELSE input.latitude) = Delta(enc)
            asString == EncodeBody(At(EncodeLocals, enc), input.latitude, input.longitude)
            asInt == EncodeIntBody(At(EncodeIntLocals, enc), input.latitude, input.longitude)
            asBigInt ==
                EncodeBigIntBody(At(EncodeIntLocals, enc), input.latitude, input.longitude)
        IN  /\ Emitted(input.form, enc') = Emitted(input.form, enc) + 1
            /\ asString.carry = bit /\ Interval(asString) = Interval(enc')
            /\ getBit(asInt.result, 0) = bit /\ Interval(asInt) = Interval(enc')
            /\ getBit(asBigInt.result, 0) = bit /\ Interval(asBigInt) = Interval(enc')
            /\ tie => /\ bit = 0
                      /\ IF enc.isEven
                         THEN enc'.maxLon = Delta(enc) /\ enc'.minLon = enc.minLon
                         ELSE enc'.maxLat = Delta(enc) /\ enc'.minLat = enc.minLat

\* the code an encoder returned has the bits the other two encoders return for the
\* same coordinate at the same depth (the integer encoder up to its 52 bits)
SameBits ==
    pc = "encoded" =>
        LET mine == BitsOf(input.form, out.code, input.precision)
            k == Len(mine)
            n == (k + (BITS_PER_CHAR - 1)) \div BITS_PER_CHAR
        IN  /\ mine = SubSeq(BitsOfString(_encode(input.latitude, input.longitude, n)), 1, k)
            /\ mine = BitsOfInt(_encodeBigInt(input.latitude, input.longitude, k), k)
            /\ k <= MAX_GEOINT_BITS
                 => mine = BitsOfInt(_encodeInt(input.latitude, input.longitude, k), k)

\* C5: in the three encoders a coordinate equal to the midpoint of the active axis
\* emits bit 0 and narrows the interval to its lower half, and the three encoders
\* emit the same bit at every step for the same coordinate.
C5_TieBreak == [][TieBreakStep]_vars /\ []SameBits

\* the coordinate (0, 0) after its first longitude and latitude bit, both ties
C5_Witness ==
    /\ pc = "encode" /\ input.latitude = Deg(0) /\ input.longitude = Deg(0)
    /\ input.form = "geobigint" /\ enc.bitCount = 2
    /\ enc.maxLon = Deg(0) /\ enc.maxLat = Deg(0)
    /\ enc.result = Zero

\* number * 32 + index, for an index of 0 .. 31
ShiftChar(number, index) ==
    Shift(Shift(Shift(Shift(Shift(number, (index \div 16) % 2), (index \div 8) % 2),
                      (index \div 4) % 2), (index \div 2) % 2), index % 2)

\* the base-32 number whose digits are the alphabet indices of the first n characters
\* of a geohash, most significant first
RECURSIVE Base32Number(_, _)
Base32Number(geohash, n) ==
    IF n = 0 THEN Zero
    ELSE ShiftChar(Base32Number(geohash, n - 1), alphabetLookup(geohash[n]))

\* the first bit of a code of a coordinate is the longitude's: 1 east of 0
LongitudeFirst(bits, longitude) == bits[1] = (IF Less(Deg(0), longitude) THEN 1 ELSE 0)

\* C23: encodeBigInt(lat, lon, b) is numerically equal to encodeInt(lat, lon, b) for b
\* in 1..52, and the base-32 number of the alphabet indices of encode(lat, lon, N)
\* equals encodeBigInt(lat, lon, 5N); the first bit is a longitude bit
C23_EncodersAgree ==
    pc = "encoded" =>
        /\ LongitudeFirst(BitsOf(input.form, out.code, input.precision), input.longitude)
        /\ CASE input.form = "geoint" ->
                    encodeBigInt(input.latitude, input.longitude, input.precision)
                        = Ok(out.code)
             [] input.form = "geobigint" ->
                    input.precision <= MAX_GEOINT_BITS =>
                        encodeInt(input.latitude, input.longitude, input.precision)
                            = Ok(out.code)
             [] input.form = "geohash" ->
                    encodeBigInt(input.latitude, input.longitude,
                                 BITS_PER_CHAR * input.precision)
                        = Ok(Base32Number(out.code, Len(out.code)))

\* encode(64.0123456789, 64.0123456789, 22) and encodeInt of it at 52 bits, returned
C23_Witness ==
    /\ pc = "encoded"
    /\ input.latitude = Documented /\ input.longitude = Documented
    /\ \/ input.form = "geohash" /\ input.precision = MAX_GEOHASH_PRECISION
       \/ input.form = "geoint" /\ input.precision = MAX_GEOINT_BITS
    /\ out.code # Zero

\* encode / encodeInt / encodeBigInt of the centre decode returned, at the same width
Reencoded(form, location, width) ==
    Encoded(form, location.latitude, location.longitude, width)

\* C25: encode applied to the centre of the box decoded from a code, at the code's
\* precision or bit-width, returns the code; in the three forms
C25_DecodeEncode ==
    (pc = "decoded" /\ out.location.type = "ok") =>
        Reencoded(input.form, out.location.value, input.precision) = Ok(out.code)

(***************************************************************************)
(* Properties of SpecCode                                                  *)
(***************************************************************************)
\* the positions of a string whose character is not of the alphabet
InvalidAt(code) == {i \in 1 .. Len(code) : code[i] \notin AlphabetChars}

Leftmost(S) == CHOOSE i \in S : \A j \in S : i <= j

\* C4: for a string of 1..22 characters with a character outside the alphabet,
\* decodeBoundingBox and decode raise a SyntaxError naming the leftmost such character
\* and its zero-based index and return nothing; for a string of 1..22 alphabet
\* characters they raise no error.
C4_InvalidCharacter ==
    pc = "decoded" /\ input.form = "geohash"
      /\ Len(input.code) \in 1 .. MAX_GEOHASH_PRECISION =>
        IF InvalidAt(input.code) # {}
        THEN LET i == Leftmost(InvalidAt(input.code))
             IN  /\ out.box = [type |-> "SyntaxError", char |-> input.code[i], index |-> i - 1]
                 /\ out.location = out.box
        ELSE out.box.type = "ok" /\ out.location.type = "ok"

\* two characters outside the alphabet, the first of them not the first of the string
C4_Witness ==
    /\ pc = "decoded" /\ input.form = "geohash"
    /\ Cardinality(InvalidAt(input.code)) = 2
    /\ Leftmost(InvalidAt(input.code)) > 1
    /\ out.box.type = "SyntaxError"
    /\ out.box.index = Leftmost(InvalidAt(input.code)) - 1

\* v / 2 ** k
RECURSIVE Halved(_, _)
Halved(v, k) == IF k = 0 THEN v ELSE Halved(Half(v), k - 1)

\* number of bits of the code of the session
CodeBits == IF input.form = "geohash" THEN BITS_PER_CHAR * Len(input.code) ELSE input.precision

\* C6: decoding a valid code of B bits yields a box with minLat < maxLat, minLon <
\* maxLon, maxLon - minLon = 360 / 2^ceil(B/2) and maxLat - minLat = 180 / 2^floor(B/2),
\* inside the domain [-90, 90] x [-180, 180].
C6_CellSize ==
    pc = "decoded" /\ out.box.type = "ok" =>
        LET box == out.box.value
        IN  /\ Less(box[1], box[3])
            /\ Less(box[2], box[4])
            /\ Gap(box[4], box[2]) = MagOf(Halved(Deg(360), (CodeBits + 1) \div 2))
            /\ Gap(box[3], box[1]) = MagOf(Halved(Deg(180), CodeBits \div 2))
            /\ Leq(MIN_LATITUDE, box[1]) /\ Leq(box[3], MAX_LATITUDE)
            /\ Leq(MIN_LONGITUDE, box[2]) /\ Leq(box[4], MAX_LONGITUDE)

\* the characters in the order of their code units
CodeUnits ==
    << "-", "0", "1", "2", "3", "4", "5", "6", "7", "8", "9", "A", "a", "b", "c", "d", "e",
       "f", "g", "h", "i", "j", "k", "l", "m", "n", "o", "p", "q", "r", "s", "t", "u", "v",
       "w", "x", "y", "z", "~" >>

CodeUnit(char) == CHOOSE i \in 1 .. Len(CodeUnits) : CodeUnits[i] = char

\* a < b for strings: the order of the first code unit that differs, a proper prefix
\* coming first
RECURSIVE StringLess(_, _, _)
StringLess(a, b, i) ==
    IF i > Len(b) THEN FALSE
    ELSE IF i > Len(a) THEN TRUE
    ELSE IF a[i] # b[i] THEN CodeUnit(a[i]) < CodeUnit(b[i])
    ELSE StringLess(a, b, i + 1)

IsValidGeohash(h) ==
    Len(h) \in 1 .. MAX_GEOHASH_PRECISION /\ InvalidAt(h) = {}

\* valid geohashes with prefix h: h, h and one more character, and h filled up to 22
\* characters with the first, or the last, character of the alphabet
Extensions(h) ==
    {h} \cup
    (IF Len(h) = MAX_GEOHASH_PRECISION THEN {}
     ELSE {h \o << c >> : c \in AlphabetChars}
          \cup {h \o [k \in 1 .. (MAX_GEOHASH_PRECISION - Len(h)) |-> c] :
                    c \in {ALPHABET[1], ALPHABET[BASE]}})

\* C9: for a valid geohash h and bits in 1..110 with bits >= 5 * length(h),
\* getBoundingBoxQuery(h, bits) returns [start, end] with start <= g < end, in the
\* order of code units, for every valid geohash g that has h as a prefix.
C9_QueryContainment ==
    pc = "query" /\ IsValidGeohash(input.code)
      /\ out.bits \in 1 .. MAX_GEOHASH_PRECISION_BITS
      /\ out.bits >= BITS_PER_CHAR * Len(input.code) =>
        /\ out.query.type = "ok"
        /\ \A g \in Extensions(input.code) :
             /\ ~StringLess(g, out.query.value[1], 1)
             /\ StringLess(g, out.query.value[2], 1)

\* a query at exactly the depth of a geohash whose last character is not the last of
\* the alphabet: the range ends at the next character
C9_Witness ==
    /\ pc = "query" /\ IsValidGeohash(input.code)
    /\ Len(input.code) \in 2 .. (MAX_GEOHASH_PRECISION - 1)
    /\ out.bits = BITS_PER_CHAR * Len(input.code)
    /\ out.query.type = "ok"
    /\ out.query.value[1] = input.code
    /\ out.query.value[2][Len(input.code)] # LIMITER_CHAR

\* the first bits bits of a geohash g of ceil(bits / 5) characters or more: the
\* characters before the last of them, five bits each, and the leading bits of that one
FirstBits(g, bits) ==
    << SubSeq(g, 1, (bits - 1) \div BITS_PER_CHAR),
       SubSeq(BitsOfString(<< g[((bits - 1) \div BITS_PER_CHAR) + 1] >>), 1,
              ((bits - 1) % BITS_PER_CHAR) + 1) >>

\* the alphabet characters next to c in the alphabet
Beside(c) ==
    {ALPHABET[i] : i \in {alphabetLookup(c), alphabetLookup(c) + 2} \cap (1 .. BASE)}

\* valid geohashes of p characters or more to try against the range of h: the first
\* p - 1 characters of h followed by each character of the alphabet, the same with
\* the last character of the alphabet after it, and h cut at p with the character
\* before the last changed
Probes(h, p) ==
    {SubSeq(h, 1, p - 1) \o << c >> : c \in AlphabetChars}
    \cup (IF p = MAX_GEOHASH_PRECISION THEN {}
          ELSE {SubSeq(h, 1, p - 1) \o << c, ALPHABET[BASE] >> : c \in AlphabetChars})
    \cup (IF p = 1 THEN {}
          ELSE {[SubSeq(h, 1, p) EXCEPT ![p - 1] = c] : c \in Beside(h[p - 1])})

\* start and end, of p characters, bound exactly the geohashes whose first bits bits
\* are prefix, those of h
BoundsPrefix(h, bits, p, start, end, prefix) ==
    /\ Len(start) = p /\ Len(end) = p
    /\ StringLess(start, end, 1)
    /\ \A g \in Probes(h, p) :
         (~StringLess(g, start, 1) /\ StringLess(g, end, 1))
             <=> FirstBits(g, bits) = prefix
    /\ (alphabetLookup(h[p]) \div (2 ^ (BITS_PER_CHAR * p - bits)) + 1)
          * (2 ^ (BITS_PER_CHAR * p - bits)) > BASE - 1
         => end[p] = "~"

\* C20: for a valid geohash h and bits in 1 .. 5 * length(h), with p = ceil(bits / 5),
\* getBoundingBoxQuery(h, bits) returns [start, end], two strings of p characters with
\* start < end, such that a valid geohash g of p characters or more has
\* start <= g < end in the order of code units exactly when its first bits bits are
\* those of h; the last character of end is "~" when the masked index of the p-th
\* character plus 2^shift is above 31.
C20_TruncatedQuery ==
    pc = "query" /\ IsValidGeohash(input.code)
      /\ out.bits \in 1 .. (BITS_PER_CHAR * Len(input.code)) =>
        /\ out.query.type = "ok"
        /\ BoundsPrefix(input.code, out.bits,
                        (out.bits + (BITS_PER_CHAR - 1)) \div BITS_PER_CHAR,
                        out.query.value[1], out.query.value[2],
                        FirstBits(input.code, out.bits))

\* a query that cuts a geohash inside a character: the range starts below the
\* geohash's own character and ends at a character of the alphabet
C20_Witness ==
    /\ pc = "query" /\ IsValidGeohash(input.code)
    /\ out.bits % BITS_PER_CHAR # 0
    /\ out.bits < BITS_PER_CHAR * (Len(input.code) - 1)
    /\ out.bits > BITS_PER_CHAR
    /\ out.query.type = "ok"
    /\ out.query.value[1][Len(out.query.value[1])]
         # input.code[Len(out.query.value[1])]
    /\ out.query.value[2][Len(out.query.value[2])] # LIMITER_CHAR

(***************************************************************************)
(* Properties of SpecNeighbors                                             *)
(***************************************************************************)
\* a code its validation accepts: validateGeohash, toGeoint, toGeobigint
IsValidCode(form, code) ==
    CASE form = "geohash" -> IsValidGeohash(code)
      [] form = "geoint" -> toGeoint(code).type = "ok"
      [] form = "geobigint" -> toGeobigint(code).type = "ok"

\* C7: for a valid code, getNeighbors (getNeighborsInt, getNeighborsBigInt) returns a
\* mapping whose keys are exactly north, northeast, east, southeast, south, southwest,
\* west and northwest, the value at each direction being what getNeighbor
\* (getNeighborInt, getNeighborBigInt) returns for the code and that direction.
C7_NeighborSet ==
    pc = "neighbors" /\ IsValidCode(input.form, input.code) =>
        /\ out.neighbors.type = "ok"
        /\ DOMAIN out.neighbors.value =
               {"north", "northeast", "east", "southeast", "south", "southwest", "west",
                "northwest"}
        /\ \A d \in DOMAIN directionLookup :
               /\ d \in DOMAIN out.neighbors.value
               /\ NeighborAs(input.form, input.code, d, input.precision)
                      = [type |-> "ok", value |-> out.neighbors.value[d]]

\* the neighbours the documentation lists for 'v7ms0th6gy'
C7_Witness ==
    /\ pc = "neighbors"
    /\ input.form = "geohash"
    /\ input.code = << "v", "7", "m", "s", "0", "t", "h", "6", "g", "y" >>
    /\ out.neighbors.type = "ok"
    /\ out.neighbors.value["north"] = << "v", "7", "m", "s", "0", "t", "h", "6", "g", "z" >>
    /\ out.neighbors.value["northwest"]
           = << "v", "7", "m", "s", "0", "t", "h", "6", "g", "x" >>

\* the latitude bits of a geohash: every second bit, from the second
LatitudeBits(code) ==
    {BitsOfString(code)[k] : k \in {j \in 1 .. (BITS_PER_CHAR * Len(code)) : j % 2 = 0}}

\* the displacement by a direction leaves the latitude range: northward from the
\* northernmost row of cells, or southward from the southernmost
LeavesLatitudeRange(code, direction) ==
    \/ directionLookup[direction][1] = 1 /\ LatitudeBits(code) \subseteq {1}
    \/ directionLookup[direction][1] = -1 /\ LatitudeBits(code) \subseteq {0}

\* C8: for a valid geohash h and a direction d of the eight whose displacement does
\* not leave the latitude range, getNeighbor(getNeighbor(h, d), opposite of d) is h,
\* and has the length of h.
C8_NeighborSymmetry ==
    pc = "back" /\ input.form = "geohash"
      /\ ~LeavesLatitudeRange(input.code, out.direction) =>
        /\ out.back.type = "ok"
        /\ Len(out.back.value) = Len(input.code)
        /\ out.back.value = input.code

(***************************************************************************)
(* Properties of SpecBoxes                                                 *)
(***************************************************************************)
\* C10: for arguments the validation accepts, the k-th pull of the generator returns
\* the k-th element of the sequence the eager function returns, and a generator pulled
\* to its end has produced exactly that sequence.
C10_LazyEqualsEager ==
    pc \in {"created", "pulling"} /\ out.type = "ok" =>
        /\ Len(pulled) <= Len(out.value)
        /\ pulled = SubSeq(out.value, 1, Len(pulled))
        /\ gen.state = "completed" => pulled = out.value

\* a generator pulled to its end over several rows of several cells
C10_Witness ==
    /\ pc = "pulling"
    /\ out.type = "ok"
    /\ gen.state = "completed"
    /\ Len(pulled) >= 6
    /\ pulled = out.value
    /\ \E i, j \in 1 .. Len(pulled) : i # j /\ pulled[i] # pulled[j]

\* (latLength + 1) * (lonLength + 1), and 0 when a length is negative or not finite
SequenceLength(f) ==
    IF /\ NumberIsFinite(f.latLength) /\ NumberIsFinite(f.lonLength)
       /\ f.latLength.value >= 0 /\ f.lonLength.value >= 0
    THEN (f.latLength.value + 1) * (f.lonLength.value + 1)
    ELSE 0

SequenceWithin(n) ==
    /\ Len(pulled) <= n
    /\ gen.state = "suspendedYield" => Len(pulled) \in 1 .. n
    /\ gen.state = "completed" => Len(pulled) = n
    /\ pc = "exhausted" => gen.state = "completed"

\* C18: for arguments the validation accepts, a generator returns a cell on each of
\* its first (latLength + 1) * (lonLength + 1) pulls (none when a length is negative
\* or not finite), reports completion on the next, and reports completion without a
\* cell on every pull after that; it never returns more cells than that count.
C18_FiniteSequence ==
    pc \in {"created", "pulling", "exhausted"} /\ out.type = "ok" =>
        SequenceWithin(SequenceLength(
            GeneratorFrame(input.form, input.minLat, input.minLon, input.maxLat,
                           input.maxLon, input.precision)))

\* a generator of several rows and columns pulled again after it completed
C18_Witness ==
    /\ pc = "exhausted"
    /\ out.type = "ok"
    /\ gen.state = "completed"
    /\ Len(pulled) >= 6

\* the bits of one axis of a code: the longitude's are the first and every second
\* after it, the latitude's the others
AxisBits(bits, first) ==
    [k \in 1 .. ((Len(bits) + 2 - first) \div 2) |-> bits[2 * k - 2 + first]]

\* the binary number of a sequence of bits, one added, within its width
RECURSIVE Increment(_)
Increment(bits) ==
    IF bits = << >> THEN << >>
    ELSE IF bits[Len(bits)] = 0 THEN [bits EXCEPT ![Len(bits)] = 1]
    ELSE Append(Increment(SubSeq(bits, 1, Len(bits) - 1)), 0)

RECURSIVE Advance(_, _)
Advance(bits, n) == IF n = 0 THEN bits ELSE Advance(Increment(bits), n - 1)

\* cells, the codes enumerated, are those of the grid of f in row-major order from
\* the cell of bits origin: rows south to north, west to east within a row
InOrder(cells, f, origin, form, width) ==
    /\ NumberIsFinite(f.latLength) /\ NumberIsFinite(f.lonLength)
    /\ Len(cells) = (f.latLength.value + 1) * (f.lonLength.value + 1)
    /\ \A i \in 0 .. f.latLength.value, j \in 0 .. f.lonLength.value :
         /\ AxisBits(BitsOf(form, cells[i * (f.lonLength.value + 1) + j + 1], width), 2)
              = Advance(AxisBits(origin, 2), i)
         /\ AxisBits(BitsOf(form, cells[i * (f.lonLength.value + 1) + j + 1], width), 1)
              = Advance(AxisBits(origin, 1), j)

\* the first and the last of the cells are the codes of the two corners
FromCornerToCorner(cells, southwest, northeast) ==
    /\ cells # << >>
    /\ cells[1] = southwest
    /\ cells[Len(cells)] = northeast

\* C19: with minLat <= maxLat and minLon <= maxLon, getBoundingBoxes,
\* getBoundingBoxesInt and getBoundingBoxesBigInt return, and their generators pulled
\* to the end have yielded, (latLength + 1) * (lonLength + 1) codes, the one at index
\* i * (lonLength + 1) + j being the cell i rows north and j columns east of the cell
\* of the south-west corner, the first the code of (minLat, minLon) and the last the
\* code of (maxLat, maxLon).
C19_EnumerationOrder ==
    /\ pc \in {"eager", "pulling"}
    /\ pc = "pulling" => gen.state = "completed"
    /\ out.type = "ok"
    /\ Leq(input.minLat, input.maxLat) /\ Leq(input.minLon, input.maxLon)
    => /\ InOrder(IF pc = "eager" THEN out.value ELSE pulled,
                  BoxesFrame(input.form, input.minLat, input.minLon, input.maxLat,
                             input.maxLon, input.precision),
                  BitsOf(input.form,
                         EncodeAs(input.form, input.minLat, input.minLon, input.precision),
                         input.precision),
                  input.form, input.precision)
       /\ FromCornerToCorner(IF pc = "eager" THEN out.value ELSE pulled,
                             EncodeAs(input.form, input.minLat, input.minLon,
                                      input.precision),
                             EncodeAs(input.form, input.maxLat, input.maxLon,
                                      input.precision))

\* the cell of the north-east corner lies in a row strictly south of, or in a column
\* strictly west of, the cell of the south-west corner
Inverted(southwest, northeast) ==
    Less(northeast[1], southwest[1]) \/ Less(northeast[2], southwest[2])

InvertedCorners ==
    Inverted(DecodeBoxAs(input.form,
                         EncodeAs(input.form, input.minLat, input.minLon, input.precision),
                         input.precision),
             DecodeBoxAs(input.form,
                         EncodeAs(input.form, input.maxLat, input.maxLon, input.precision),
                         input.precision))

\* C27: when the cell of (maxLat, maxLon) lies in a row strictly south of, or in a
\* column strictly west of, the cell of (minLat, minLon), getBoundingBoxes and its Int
\* and BigInt forms return an empty sequence without error, and the generator yields
\* no cell
C27_InvertedCorners ==
    (pc # "start" /\ out.type = "ok" /\ InvertedCorners) =>
        out.value = << >> /\ pulled = << >>

\* no code occurs twice in a sequence of cells
NoCodeTwice(cells) == \A i, j \in 1 .. Len(cells) : cells[i] = cells[j] => i = j

\* the points of the rectangle the sequence is asked to cover that the property is
\* tried on: its four corners, and the corners of the model that lie in it
PointsWithin(minLat, minLon, maxLat, maxLon) ==
    {<< minLat, minLon >>, << minLat, maxLon >>, << maxLat, minLon >>, << maxLat, maxLon >>}
        \cup {c \in Corners : InBox(<< minLat, minLon, maxLat, maxLon >>, c[1], c[2])}

\* the code of every one of the points is among the cells
Covers(cells, form, points, width) ==
    \A c \in points : \E i \in 1 .. Len(cells) : cells[i] = EncodeAs(form, c[1], c[2], width)

\* C28: with minLat <= maxLat and minLon <= maxLon the sequence getBoundingBoxes
\* returns contains no code twice and contains the code of every point of the
\* rectangle; the same for the Int and BigInt forms
C28_CoverageNoDuplicates ==
    (/\ pc = "eager" /\ out.type = "ok"
     /\ Leq(input.minLat, input.maxLat) /\ Leq(input.minLon, input.maxLon)) =>
        /\ NoCodeTwice(out.value)
        /\ Covers(out.value, input.form,
                  PointsWithin(input.minLat, input.minLon, input.maxLat, input.maxLon),
                  input.precision)

\* v is in [-bound, bound]
Bounded(v, bound) == Leq(Neg(bound), v) /\ Leq(v, bound)

\* an argument of the call is out of its range
ArgumentOutOfRange ==
    \/ input.precision \notin Widths(input.form)
    \/ ~Bounded(input.minLat, MAX_LATITUDE) \/ ~Bounded(input.maxLat, MAX_LATITUDE)
    \/ ~Bounded(input.minLon, MAX_LONGITUDE) \/ ~Bounded(input.maxLon, MAX_LONGITUDE)

\* the generator has thrown a RangeError in the pull just made
ThrewRangeError == "thrown" \in DOMAIN gen /\ gen.thrown.type = "RangeError"

\* C29: with a precision, bit-width, latitude or longitude out of range the call of
\* a generator function raises nothing, the first pull raises the RangeError before
\* any cell is produced, and the sequence is finished afterwards; getBoundingBoxes
\* and its Int and BigInt forms raise at the call
C29_DeferredValidation ==
    (pc # "start" /\ ArgumentOutOfRange) =>
        /\ out.type = "RangeError"
        /\ pulled = << >>
        /\ pc = "created" => gen = [state |-> "suspendedStart"]
        /\ pc = "pulling" => gen.state = "completed" /\ ThrewRangeError
        /\ pc = "exhausted" => gen = [state |-> "completed"]

\* the generator called with the precision 23 has thrown on its first pull and
\* reported completion on the second
C29_Witness ==
    /\ pc = "exhausted" /\ input.form = "geohash"
    /\ input.precision = MAX_GEOHASH_PRECISION + 1
    /\ gen.state = "completed" /\ pulled = << >> /\ out.type = "RangeError"

(***************************************************************************)
(* Properties of SpecLimits                                                *)
(***************************************************************************)
\* C11: in every variant, a call with a precision or bit-width outside 1 .. Limit ends
\* with a RangeError and no result, and a call with one inside returns a result
C11_NumericLimits ==
    pc = "called" =>
        IF input.precision \in 1 .. Limit(input.operation)
        THEN out.type = "ok"
        ELSE out.type = "RangeError" /\ "value" \notin DOMAIN out

(***************************************************************************)
(* Properties of SpecPrecision                                             *)
(***************************************************************************)
\* C12: the latitude error and the longitude error decode returns for the code of a
\* coordinate at the width p + 1 are both strictly smaller than those at p
C12_MonotonicPrecision ==
    (pc = "next" /\ out.at.type = "ok" /\ out.next.type = "ok") =>
        /\ Less(out.next.value.error.latitude, out.at.value.error.latitude)
        /\ Less(out.next.value.error.longitude, out.at.value.error.longitude)

\* a box lies in a closed box
BoxInBox(inner, outer) ==
    /\ Leq(outer[1], inner[1]) /\ Leq(inner[3], outer[3])
    /\ Leq(outer[2], inner[2]) /\ Leq(inner[4], outer[4])

\* shorter = floor(longer / 2) of integer codes; of strings, shorter is a prefix of
\* longer with one character less
Parent(form, shorter, longer) ==
    IF form = "geohash"
    THEN Len(longer) = Len(shorter) + 1 /\ shorter = SubSeq(longer, 1, Len(shorter))
    ELSE \E bit \in 0 .. 1 : longer = Shift(shorter, bit)

\* the codes of a coordinate at a width and at the next are parent and child
Nested(form, shorter, longer) ==
    shorter.type = "ok" /\ longer.type = "ok" /\ Parent(form, shorter.value, longer.value)

\* the exported decoders return a box for both codes, the longer one's inside the
\* shorter one's
NestedBoxes(longer, shorter) ==
    longer.type = "ok" /\ shorter.type = "ok" /\ BoxInBox(longer.value, shorter.value)

BoxOfCode(form, code, width) ==
    IF code.type # "ok" THEN code ELSE DecodedBox(form, code.value, width)

HierarchyAt(form, shorter, longer, width) ==
    /\ Nested(form, shorter, longer)
    /\ NestedBoxes(BoxOfCode(form, longer, width + 1), BoxOfCode(form, shorter, width))

\* C22: encode(lat, lon, N) is a prefix of encode(lat, lon, N + 1), encodeInt(lat, lon,
\* b) = floor(encodeInt(lat, lon, b + 1) / 2) and likewise encodeBigInt, and the box
\* decoded from the longer code is contained in the box decoded from the shorter one
C22_Hierarchy ==
    pc = "next" =>
        HierarchyAt(input.form,
                    Encoded(input.form, input.latitude, input.longitude, input.precision),
                    Encoded(input.form, input.latitude, input.longitude,
                            input.precision + 1),
                    input.precision)

(***************************************************************************)
(* Properties of SpecDefault                                               *)
(***************************************************************************)
\* the geohash the documentation gives for (64.0123456789, 64.0123456789)
DocumentedGeohash == << "v", "7", "m", "s", "0", "t", "h", "6", "g", "y" >>

AtDocumented ==
    input.form = "geohash" /\ input.latitude = Documented /\ input.longitude = Documented

\* C13: encode(64.0123456789, 64.0123456789, 10) returns v7ms0th6gy, and so does
\* encode(64.0123456789, 64.0123456789) with the precision omitted
C13_EncodeScenario ==
    /\ (pc \in {"omitted", "given"} /\ AtDocumented) => out.omitted = Ok(DocumentedGeohash)
    /\ (pc = "given" /\ AtDocumented /\ out.precision = 10) =>
           out.given = Ok(DocumentedGeohash) /\ out.given = out.omitted

C13_Witness == pc = "given" /\ AtDocumented /\ out.precision = 10 /\ out.given.type = "ok"

(***************************************************************************)
(* The documented neighbours, a property of SpecNeighbors                  *)
(***************************************************************************)
\* the first eight characters of the documented geohash and of its neighbours
DocumentedStem == SubSeq(DocumentedGeohash, 1, 8)

\* the neighbours the documentation lists for v7ms0th6gy
DocumentedNeighbors ==
    [north |-> DocumentedStem \o << "g", "z" >>, northeast |-> DocumentedStem \o << "u", "p" >>,
     east |-> DocumentedStem \o << "u", "n" >>, southeast |-> DocumentedStem \o << "u", "j" >>,
     south |-> DocumentedStem \o << "g", "v" >>, southwest |-> DocumentedStem \o << "g", "t" >>,
     west |-> DocumentedStem \o << "g", "w" >>, northwest |-> DocumentedStem \o << "g", "x" >>]

OfDocumentedGeohash == input.form = "geohash" /\ input.code = DocumentedGeohash

\* C14: getNeighbors('v7ms0th6gy') returns the eight documented neighbours, and
\* getNeighbor('v7ms0th6gy', 'north') returns v7ms0th6gz
C14_NeighborScenario ==
    /\ (pc = "neighbors" /\ OfDocumentedGeohash) => out.neighbors = Ok(DocumentedNeighbors)
    /\ (pc = "neighbor" /\ OfDocumentedGeohash /\ out.direction \in DOMAIN DocumentedNeighbors)
           => out.neighbor = Ok(DocumentedNeighbors[out.direction])

C14_Witness ==
    pc = "neighbor" /\ OfDocumentedGeohash /\ out.direction = "north"
      /\ out.neighbor = Ok(DocumentedStem \o << "g", "z" >>)

(***************************************************************************)
(* Properties of SpecWrap                                                  *)
(***************************************************************************)
Within(v, min, max) == Leq(min, v) /\ Leq(v, max)

\* C15: wrapLongitude returns a value in [-180, 180] and wrapLatitude one in
\* [-90, 90], and a value already in the range is returned unchanged
C15_WrapRange ==
    pc = "wrapped" =>
        IF input.function = "wrapLatitude"
        THEN /\ Within(out.value, MIN_LATITUDE, MAX_LATITUDE)
             /\ Within(input.x, MIN_LATITUDE, MAX_LATITUDE) => out.value = input.x
        ELSE /\ Within(out.value, MIN_LONGITUDE, MAX_LONGITUDE)
             /\ Within(input.x, MIN_LONGITUDE, MAX_LONGITUDE) => out.value = input.x


(***************************************************************************)
(* Properties of SpecVincenty                                              *)
(***************************************************************************)
\* C16: the refinement loop of getVincentyDistance runs at most 100 times; the
\* function returns 0 when sinSigma is 0 in an iteration or when no iteration
\* reaches |lambda - lambdaP| <= EPSILON; and when an iteration k with
\* 1 <= k <= 100 reaches it, the loop stops there and the function returns the
\* distance computed from that iteration, not the literal 0.
C16_VincentyLoop ==
    /\ pc \in {"do", "done", "returned"} => enc.iterations <= VINCENTY_ITERATIONS
    /\ pc = "returned" =>
         IF ~enc.sinSigma0 /\ enc.difference = "within"
         THEN enc.iterations \in 1 .. VINCENTY_ITERATIONS /\ ~out.zero
         ELSE out.zero


(***************************************************************************)
(* Properties of SpecShared                                                *)
(***************************************************************************)
\* C17: under every interleaving of pulls on two live sequences with calls of
\* getDirections and getNeighbors, with writes of the caller into the array
\* getDirections returned and with sequences abandoned, each sequence has yielded
\* what it yields when pulled alone, getNeighbors returns what it returns alone, and
\* the module's directions, directionLookup and alphabetLookup are what they were
\* when the module was loaded.
C17_Reentrancy ==
    /\ \A s \in Sequences2 :
         /\ Len(pulled[s]) <= Len(input.alone[s])
         /\ pulled[s] = SubSeq(input.alone[s], 1, Len(pulled[s]))
         /\ gen[s].state = "completed" => pulled[s] = input.alone[s]
    /\ out.neighbors # None => out.neighbors = input.neighbors
    /\ enc.heap[1] = directions
    /\ enc.directionLookup = directionLookup
    /\ enc.alphabetLookup = createAlphabetLookup(ALPHABET)

\* both sequences part-way through, one of them abandoned, and getNeighbors called
\* after the caller has overwritten and shortened the array it was given
C17_Witness ==
    /\ pc = << "live", "abandoned" >>
    /\ Len(pulled[1]) >= 2 /\ Len(pulled[2]) >= 2
    /\ gen[1].state = "suspendedYield" /\ gen[2].state = "suspendedYield"
    /\ out.array = 2
    /\ Len(out.heap) = 2
    /\ out.heap[2] = Popped(Overwritten(directions))
    /\ out.neighbors = input.neighbors
    /\ out.neighbors.type = "ok"


(***************************************************************************)
(* Properties of SpecPolar                                                 *)
(***************************************************************************)
\* the wide integer code of (-90, 0) at 108 bits, and the direction south
SouthOfSouthernmost ==
    /\ input.form = "geobigint" /\ input.precision = 108
    /\ input.code = _encodeBigInt(Deg(-90), Deg(0), 108)
    /\ input.direction = "south"

\* C24: there is a code of the southernmost row and a direction for which the
\* neighbour function of the clamping variants and that of the reflecting variant
\* return different codes
C24_PolarPolicy ==
    (pc = "part_002" /\ SouthOfSouthernmost) =>
        /\ out[1].type = "ok" /\ out[2].type = "ok" /\ out[3].type = "ok"
        /\ out[2] = out[3]
        /\ out[1] # out[2]

\* the clamping variants return the code itself, the reflecting one the code of the
\* row above
C24_Witness ==
    /\ pc = "part_002" /\ SouthOfSouthernmost
    /\ out[2] = Ok(input.code)
    /\ out[1].type = "ok" /\ getBit(out[1].value, 0) = 1

(***************************************************************************)
(* Properties of SpecAbove                                                 *)
(***************************************************************************)
\* number mod 2^bits
ModPow2(number, bits) ==
    [i \in 1 .. 5 |->
        IF bits >= (5 - i) * 24 + 24 THEN number[i]
        ELSE IF bits <= (5 - i) * 24 THEN 0
        ELSE number[i] % (2 ^ (bits - (5 - i) * 24))]

\* 1 <= g <= 2^52, or 2^110 for the wide form
Accepted(form, g) == g # Zero /\ ~IntLess(LargestCode(form), g)

\* C26: every integer code g from 1 to 2^52 (2^110 for the wide form) is accepted
\* whatever the bit-width, and decodeBoundingBoxInt(g, bits) returns without error the
\* box of the code g mod 2^bits at that width
C26_BitsAboveWidth ==
    (pc = "decoded" /\ Accepted(input.form, input.code)) =>
        out.box = Ok(DecodeBoxAs(input.form, ModPow2(input.code, input.precision),
                                 input.precision))

\* decodeBoundingBoxInt(2^13, 13) returned the south-west-most cell of 13 bits
C26_Witness ==
    /\ pc = "decoded" /\ input.form = "geoint" /\ input.precision = 13
    /\ input.code = Pow2(13)
    /\ out.box = Ok(_decodeBoundingBoxInt(Zero, 13))
    /\ out.box.value[1] = Deg(-90) /\ out.box.value[2] = Deg(-180)

(***************************************************************************)
(* Properties of SpecCircle                                                *)
(***************************************************************************)
\* the index of the first sample point whose range is query
FirstPoint(query) ==
    CHOOSE k \in 1 .. Len(input.points) :
        /\ PointQuery(input.points[k], input.bits) = query
        /\ \A j \in 1 .. (k - 1) : PointQuery(input.points[j], input.bits) # query

\* result holds each range of the nine points once, in the order of first occurrence
Deduplicated(result) ==
    /\ Len(result) \in 1 .. 9
    /\ \A i, j \in 1 .. Len(result) : i # j => result[i] # result[j]
    /\ \A k \in 1 .. Len(input.points) :
         \E i \in 1 .. Len(result) : result[i] = PointQuery(input.points[k], input.bits)
    /\ \A i, j \in 1 .. Len(result) :
         i < j => FirstPoint(result[i]) < FirstPoint(result[j])
    /\ result[1] = PointQuery(input.points[1], input.bits)

\* C21: getBoundingCircleQueries returns between 1 and 9 [start, end] pairs, no two
\* of them equal; the range of each of the nine sample points is among them; and they
\* are in the order in which their first sample point occurs, the centre's first.
C21_CircleQueries == pc = "returned" => Deduplicated(out.value)

\* some of the nine ranges were suppressed as duplicates and several were kept
C21_Witness ==
    /\ pc = "returned"
    /\ Len(out.value) \in 3 .. 8
    /\ PointQuery(input.points[2], input.bits) = PointQuery(input.points[1], input.bits)
    /\ PointQuery(input.points[9], input.bits) # PointQuery(input.points[8], input.bits)


(***************************************************************************)
(* Properties of SpecValue                                                 *)
(***************************************************************************)
\* the string has 1..22 code units, each a character of the base-32 alphabet
WellFormed(units) ==
    /\ Len(units) \in 1 .. MAX_GEOHASH_PRECISION
    /\ \A i \in 1 .. Len(units) : \E k \in 1 .. BASE : ALPHABET[k] = units[i]

\* C30: for a string isGeohash is true exactly when decodeBoundingBox returns a
\* box, which is when the length is in [1, 22] and every character is in the
\* alphabet; for a value that is no string isGeohash is false and decodeBoundingBox
\* throws a TypeError
C30_IsGeohashAgrees ==
    pc = "decoded" =>
        IF input.value.kind = "string"
        THEN /\ out.is <=> out.box.type = "ok"
             /\ out.is <=> WellFormed(input.value.units)
        ELSE out.is = FALSE /\ out.box.type = "TypeError"

\* a geohash of 22 characters is accepted by both
C30_Witness ==
    /\ pc = "decoded" /\ input.value.kind = "string"
    /\ Len(input.value.units) = MAX_GEOHASH_PRECISION
    /\ out.is /\ out.box.type = "ok"

====
